---- MODULE Spec2Model ----
(***************************************************************************)
(* Model of the filter construction and application engine of MrMagic     *)
(* (src/filters.py): the geometry resampler resizeToMatch, the 2D filter   *)
(* builders, the GFilter object model and the stack executor applyStack.   *)
(*                                                                         *)
(* Numbers.  numpy computes in IEEE doubles; the model computes in exact   *)
(* arithmetic on the values the code can produce from rational inputs:     *)
(*   [k |-> "q", n, d]          the rational n/d (d > 0, lowest terms)     *)
(*   [k |-> "nan"]              NaN (mean of an empty slice, log10 of a    *)
(*                              negative number, inf - inf, 0 * inf)       *)
(*   [k |-> "inf", n]           n = 1: +inf, n = -1: -inf                  *)
(*   [k |-> "x", a, b, atom]    a + b * atom, a and b rationals <<n, d>>,  *)
(*                              b # 0, atom an irrational number named by  *)
(*                              a tagged tuple (<<"sqrt", s>>, ...).       *)
(* Rounding of doubles is not modelled.  The model follows the libraries   *)
(* the code was written against: numpy accepts integral floats as sizes    *)
(* and slice bounds (np.zeros(np.floor(..)), w[np.abs(pre):]).             *)
(***************************************************************************)
EXTENDS Integers, Sequences, FiniteSets, TLC

(***************************************************************************)
(* Exact arithmetic.                                                       *)
(***************************************************************************)
Abs(i) == IF i < 0 THEN -i ELSE i

Sign(i) == IF i < 0 THEN -1 ELSE IF i = 0 THEN 0 ELSE 1

RECURSIVE GCD(_, _)
GCD(a, b) == IF b = 0 THEN a ELSE GCD(b, a % b)

\* a rational as a pair <<n, d>> in lowest terms with d > 0
RNorm(n, d) ==
    LET g == GCD(Abs(n), Abs(d))
        s == IF d < 0 THEN -1 ELSE 1
    IN  <<(s * n) \div g, (s * d) \div g>>

RAdd(p, q) == RNorm(p[1] * q[2] + q[1] * p[2], p[2] * q[2])

RSub(p, q) == RNorm(p[1] * q[2] - q[1] * p[2], p[2] * q[2])

RMul(p, q) == RNorm(p[1] * q[1], p[2] * q[2])

RZero == <<0, 1>>

\* the values
Q(n, d) == LET r == RNorm(n, d) IN [k |-> "q", n |-> r[1], d |-> r[2]]

QR(r) == [k |-> "q", n |-> r[1], d |-> r[2]]

I(n) == [k |-> "q", n |-> n, d |-> 1]

NaN == [k |-> "nan"]

Inf(s) == [k |-> "inf", n |-> s]

\* a + b*atom, collapsing to a rational when b = 0
X(a, b, atom) ==
    IF b[1] = 0 THEN QR(a) ELSE [k |-> "x", a |-> a, b |-> b, atom |-> atom]

IsFinite(v) == v.k \in {"q", "x"}

RatPart(v) == IF v.k = "q" THEN <<v.n, v.d>> ELSE v.a

IrrPart(v) == IF v.k = "q" THEN RZero ELSE v.b

AtomOf(v) == IF v.k = "q" THEN <<>> ELSE v.atom

\* IEEE addition
VAdd(u, v) ==
    IF u.k = "nan" \/ v.k = "nan" THEN NaN
    ELSE IF u.k = "inf" /\ v.k = "inf" THEN (IF u.n = v.n THEN u ELSE NaN)
    ELSE IF u.k = "inf" THEN u
    ELSE IF v.k = "inf" THEN v
    ELSE IF u.k = "q" /\ v.k = "q" THEN QR(RAdd(RatPart(u), RatPart(v)))
    ELSE IF u.k = "q" THEN X(RAdd(RatPart(u), v.a), v.b, v.atom)
    ELSE IF v.k = "q" THEN X(RAdd(u.a, RatPart(v)), u.b, u.atom)
    ELSE IF u.atom = v.atom THEN X(RAdd(u.a, v.a), RAdd(u.b, v.b), u.atom)
    ELSE X(RZero, <<1, 1>>, <<"add", u, v>>)

\* IEEE multiplication
VMul(u, v) ==
    IF u.k = "nan" \/ v.k = "nan" THEN NaN
    ELSE IF u.k = "inf" /\ v.k = "inf" THEN Inf(u.n * v.n)
    ELSE IF u.k = "inf" /\ v.k = "q" THEN
        (IF v.n = 0 THEN NaN ELSE Inf(u.n * Sign(v.n)))
    ELSE IF v.k = "inf" /\ u.k = "q" THEN
        (IF u.n = 0 THEN NaN ELSE Inf(v.n * Sign(u.n)))
    ELSE IF u.k = "q" /\ v.k = "q" THEN QR(RMul(RatPart(u), RatPart(v)))
    ELSE IF u.k = "q" /\ v.k = "x" THEN
        X(RMul(RatPart(u), v.a), RMul(RatPart(u), v.b), v.atom)
    ELSE IF v.k = "q" /\ u.k = "x" THEN
        X(RMul(u.a, RatPart(v)), RMul(u.b, RatPart(v)), u.atom)
    ELSE X(RZero, <<1, 1>>, <<"mul", u, v>>)

VNeg(v) == VMul(I(-1), v)

VSub(u, v) == VAdd(u, VNeg(v))

\* (mutant of VPow) the exponent is taken one too high
VPowNext(v, g) == IF g = 0 THEN v ELSE VMul(v, v)

\* x**g for a natural exponent g (numpy: x**0 is 1 for every x)
RECURSIVE VPow(_, _)
VPow(v, g) == IF g = 0 THEN I(1) ELSE IF g = 1 THEN v ELSE VMul(v, VPow(v, g - 1))

\* IEEE comparison "==": NaN equals nothing, itself included
VEq(u, v) == u.k # "nan" /\ v.k # "nan" /\ u = v

(***************************************************************************)
(* 2D arrays: a sequence of rows, each a sequence of values.  What a call  *)
(* yields is an outcome: the array it returns, or the exception it raises. *)
(***************************************************************************)
Rows(A) == Len(A)

Cols(A) == IF Len(A) = 0 THEN 0 ELSE Len(A[1])

Shape(A) == <<Rows(A), Cols(A)>>

Ok(A) == [err |-> "none", arr |-> A]

Raise(e) == [err |-> e, arr |-> <<>>]

IsOk(o) == o.err = "none"

Fill(r, c, v) == [i \in 1..r |-> [j \in 1..c |-> v]]

Zeros(r, c) == Fill(r, c, I(0))

Ones(r, c) == Fill(r, c, I(1))

Transpose(A) == [j \in 1..Cols(A) |-> [i \in 1..Rows(A) |-> A[i][j]]]

\* (mutant of Roll0) the roll goes the other way: element i moves to i - shift
Roll0Backward(A, shift) ==
    LET n == Rows(A) IN [i \in 1..n |-> A[((i - 1 + shift) % n) + 1]]

\* np.roll along axis 0 and axis 1: element i moves to (i + shift) mod n
Roll0(A, shift) ==
    LET n == Rows(A) IN [i \in 1..n |-> A[((i - 1 - shift) % n) + 1]]

Roll1(A, shift) ==
    LET n == Cols(A)
    IN  [i \in 1..Rows(A) |-> [j \in 1..n |-> A[i][((j - 1 - shift) % n) + 1]]]

\* Python's a[start:stop] on a sequence of length n: the kept positions
PyIndex(n, i) == IF i < 0 THEN (IF n + i < 0 THEN 0 ELSE n + i)
                 ELSE (IF i > n THEN n ELSE i)

PySlice(s, start, stop) ==
    SubSeq(s, PyIndex(Len(s), start) + 1, PyIndex(Len(s), stop))

SliceRows(A, start, stop) == PySlice(A, start, stop)

\* (mutant of SliceCols) the kept columns sit one place nearer the end
SliceColsLate(A, start, stop) ==
    [i \in 1..Rows(A) |->
        SubSeq(A[i], PyIndex(Len(A[i]), start) + 2, PyIndex(Len(A[i]), stop) + 1)]

SliceCols(A, start, stop) == [i \in 1..Rows(A) |-> PySlice(A[i], start, stop)]

\* numpy broadcasting of two 2D shapes
Broadcastable(s, t) ==
    \A ax \in 1..2 : s[ax] = t[ax] \/ s[ax] = 1 \/ t[ax] = 1

BShape(s, t) ==
    [ax \in 1..2 |-> IF s[ax] = 1 THEN t[ax] ELSE s[ax]]

BAt(A, i, j) ==
    A[IF Rows(A) = 1 THEN 1 ELSE i][IF Cols(A) = 1 THEN 1 ELSE j]

\* elementwise A op B with broadcasting; a shape mismatch raises ValueError
ArrMul(A, B) ==
    IF ~Broadcastable(Shape(A), Shape(B)) THEN Raise("ValueError")
    ELSE LET s == BShape(Shape(A), Shape(B))
         IN  Ok([i \in 1..s[1] |-> [j \in 1..s[2] |->
                    VMul(BAt(A, i, j), BAt(B, i, j))]])

ArrSub(A, B) ==
    IF ~Broadcastable(Shape(A), Shape(B)) THEN Raise("ValueError")
    ELSE LET s == BShape(Shape(A), Shape(B))
         IN  Ok([i \in 1..s[1] |-> [j \in 1..s[2] |->
                    VSub(BAt(A, i, j), BAt(B, i, j))]])

ArrAdd(A, B) ==
    IF ~Broadcastable(Shape(A), Shape(B)) THEN Raise("ValueError")
    ELSE LET s == BShape(Shape(A), Shape(B))
         IN  Ok([i \in 1..s[1] |-> [j \in 1..s[2] |->
                    VAdd(BAt(A, i, j), BAt(B, i, j))]])

\* elementwise equality in the IEEE sense, shapes included
ArrEq(A, B) ==
    /\ Shape(A) = Shape(B)
    /\ \A i \in 1..Rows(A) : \A j \in 1..Cols(A) : VEq(A[i][j], B[i][j])

(***************************************************************************)
(* signal.resample(Window, num, axis=0): Fourier resampling of every       *)
(* column to num samples.  Resampling to the same length and resampling a  *)
(* constant column are exact; any other sample is an irrational-valued     *)
(* function of the column, named by an atom.  num = 0 raises (an inverse   *)
(* FFT of zero points).                                                    *)
(***************************************************************************)
Column(A, j) == [i \in 1..Rows(A) |-> A[i][j]]

IsConst(s) == \A i \in 1..Len(s) : s[i] = s[1]

ResampleAt(col, num, i) ==
    IF num = Len(col) THEN col[i]
    ELSE IF IsConst(col) THEN col[1]
    ELSE X(RZero, <<1, 1>>, <<"resample", col, num, i>>)

resample(A, num) ==
    IF num < 1 THEN Raise("ValueError")
    ELSE Ok([i \in 1..num |-> [j \in 1..Cols(A) |->
                ResampleAt(Column(A, j), num, i)]])

(***************************************************************************)
(* resizeToMatch(Window, Size, Cont, Center).  Center is None, an int or   *)
(* a pair; Center[0] on an int raises TypeError.                           *)
(***************************************************************************)
NoneC == [t |-> "none"]

IntC(c) == [t |-> "int", i |-> c]

TupC(c0, c1) == [t |-> "tuple", v |-> <<c0, c1>>]

\* lines 1195-1199: the resampling of axis 0 when Cont is true
resizeCont(Window, Size, Cont) ==
    IF Cont THEN resample(Window, (Rows(Window) * Size[1]) \div Size[2])
    ELSE Ok(Window)

\* (mutant of resizeAxis0) the padding is appended and never rolled into place
resizeAxis0NoRoll(Window, Size, Center) ==
    LET dZero == Size[1] - Rows(Window)
    IN  IF dZero > 0 THEN Ok(Window \o Zeros(dZero, Cols(Window)))
        ELSE IF dZero < 0 THEN
            Ok(SliceRows(Window, (-dZero) \div 2, dZero \div 2))
        ELSE Ok(Window)

\* lines 1206-1214: pad and roll, or crop, the first axis
resizeAxis0(Window, Size, Center) ==
    LET dZero == Size[1] - Rows(Window)
    IN  IF dZero > 0 THEN
            LET padded == Window \o Zeros(dZero, Cols(Window))
            IN  IF Center.t = "int" THEN Raise("TypeError")
                ELSE IF Center.t = "tuple" THEN Ok(Roll0(padded, Center.v[1]))
                ELSE Ok(Roll0(padded, dZero \div 2))
        ELSE IF dZero < 0 THEN
            Ok(SliceRows(Window, (-dZero) \div 2, dZero \div 2))
        ELSE Ok(Window)

\* (mutant of resizeAxis1) the default shift is ceil(dOne/2)
resizeAxis1CeilShift(Window, Size, Center) ==
    LET dOne == Size[2] - Cols(Window)
    IN  IF dOne > 0 THEN
            LET padded == [i \in 1..Rows(Window) |->
                              Window[i] \o [j \in 1..dOne |-> I(0)]]
            IN  IF Center.t = "int" THEN Raise("TypeError")
                ELSE IF Center.t = "tuple" THEN Ok(Roll1(padded, Center.v[2]))
                ELSE Ok(Roll1(padded, (dOne + 1) \div 2))
        ELSE IF dOne < 0 THEN
            Ok(SliceCols(Window, (-dOne) \div 2, dOne \div 2))
        ELSE Ok(Window)

\* lines 1217-1227: the same for the second axis
resizeAxis1(Window, Size, Center) ==
    LET dOne == Size[2] - Cols(Window)
    IN  IF dOne > 0 THEN
            LET padded == [i \in 1..Rows(Window) |->
                              Window[i] \o [j \in 1..dOne |-> I(0)]]
            IN  IF Center.t = "int" THEN Raise("TypeError")
                ELSE IF Center.t = "tuple" THEN Ok(Roll1(padded, Center.v[2]))
                ELSE Ok(Roll1(padded, dOne \div 2))
        ELSE IF dOne < 0 THEN
            Ok(SliceCols(Window, (-dOne) \div 2, dOne \div 2))
        ELSE Ok(Window)

\* each intermediate array is computed once: a singleton binds it
resizeAxes(r, Size, Center) ==
    IF ~IsOk(r) THEN r
    ELSE CHOOSE o \in {IF ~IsOk(a) THEN a ELSE resizeAxis1(a.arr, Size, Center) :
                           a \in {resizeAxis0(r.arr, Size, Center)}} : TRUE

resizeToMatch(Window, Size, Cont, Center) ==
    CHOOSE o \in {resizeAxes(r, Size, Center) :
                      r \in {resizeCont(Window, Size, Cont)}} : TRUE

(***************************************************************************)
(* signal.get_window(Window, N): the periodic window of N samples.  Two    *)
(* families are modelled, both with rational samples: boxcar (all ones)    *)
(* and triang (scipy's triang(N, sym=False): the symmetric window of N+1   *)
(* samples without its last one; a window of one sample is 1).  Of the     *)
(* windows that take a shape parameter, ('kaiser', 0) is modelled: with    *)
(* beta = 0 every sample is I0(0)/I0(0) = 1.                               *)
(***************************************************************************)
TriangSym(M, i) ==
    LET h == (M + 1) \div 2
        n == IF i <= h THEN i ELSE M + 1 - i
    IN  IF M % 2 = 0 THEN Q(2 * n - 1, M) ELSE Q(2 * n, M + 1)

\* a window specification: a name, or a (name, shape parameter) pair
WinStr(name) == [str |-> TRUE, name |-> name]

WinTup(name, shape) == [str |-> FALSE, name |-> name, shape |-> shape]

Boxcar == WinStr("boxcar")

Triang == WinStr("triang")

\* the windows whose samples are all 1
AllOnes(Window) ==
    \/ Window.name = "boxcar"
    \/ (~Window.str /\ Window.name = "kaiser" /\ Window.shape = 0)

get_window(Window, N) ==
    IF AllOnes(Window) THEN [i \in 1..N |-> I(1)]
    ELSE IF N <= 1 THEN [i \in 1..N |-> I(1)]
    ELSE [i \in 1..N |-> TriangSym(N + 1, i)]

outer(u, v) == [i \in 1..Len(u) |-> [j \in 1..Len(v) |-> VMul(u[i], v[j])]]

(***************************************************************************)
(* The rotational construction, lines 73-84 and 358-367: the profile       *)
(* window1 sits on the points distX = -lenX, -lenX + 1, ..., lenX with     *)
(* lenX = (Diameter-1)/2, and the pixel in row r, column c of the          *)
(* Diameter x Diameter square gets the profile linearly interpolated at    *)
(* its distance from the centre, or 0 when that distance exceeds lenX.     *)
(* Coordinates are doubled to stay in the integers: the grid points are    *)
(* Grid2(m) = 2m - 1 - Diameter, the squared distance is Dist2Sq.          *)
(***************************************************************************)
Grid2(D, m) == 2 * m - 1 - D

Dist2Sq(D, r, c) == Grid2(D, r) * Grid2(D, r) + Grid2(D, c) * Grid2(D, c)

\* the largest f with f*f dividing s (s > 0): sqrt(s) = f * sqrt(s / f^2)
SquarePart(s) == CHOOSE f \in 1..s :
    /\ s % (f * f) = 0
    /\ \A g \in (f + 1)..s : s % (g * g) # 0

\* interp1d(distX, window1)(sqrt(s2)/2) for 0 <= sqrt(s2) <= D - 1: hi is the
\* first grid point at or beyond the distance (searchsorted, clipped to >= 2)
Interp(window1, D, s2) ==
    LET hi == CHOOSE m \in 2..D :
                  /\ (Grid2(D, m) >= 0 /\ Grid2(D, m) * Grid2(D, m) >= s2)
                  /\ \A l \in 2..(m - 1) :
                        ~(Grid2(D, l) >= 0 /\ Grid2(D, l) * Grid2(D, l) >= s2)
        lo == hi - 1
        ylo == window1[lo]
        slope == VSub(window1[hi], ylo)
        f == SquarePart(s2)
        \* (sqrt(s2) - Grid2(lo)) / 2, the distance from the lower grid point
        off == IF s2 = 0 THEN Q(-Grid2(D, lo), 2)
               ELSE IF f * f = s2 THEN Q(f - Grid2(D, lo), 2)
               ELSE X(<<-Grid2(D, lo), 2>>, RNorm(f, 2), <<"sqrt", s2 \div (f * f)>>)
    IN  IF slope = I(0) THEN ylo ELSE VAdd(ylo, VMul(slope, off))

\* what interp1d does with a profile of a single point depends on the scipy
\* in use: it raises ValueError (at least 2 entries), or interpolates
VARIABLE scipyOnePoint

\* (mutant of rotate) the disc is open: pixels at exactly (D-1)/2 stay 0
rotateOpenDisc(window1, D) ==
    IF D = 1 THEN
        (IF scipyOnePoint = "raise" THEN Raise("ValueError")
         ELSE Ok(<<<<window1[1]>>>>))
    ELSE Ok([r \in 1..D |-> [c \in 1..D |->
                IF Dist2Sq(D, r, c) < (D - 1) * (D - 1)
                THEN Interp(window1, D, Dist2Sq(D, r, c)) ELSE I(0)]])

\* lines 73-84: the profile turned about the centre of a D x D square
rotate(window1, D) ==
    IF D = 1 THEN
        (IF scipyOnePoint = "raise" THEN Raise("ValueError")
         ELSE Ok(<<<<window1[1]>>>>))
    ELSE Ok([r \in 1..D |-> [c \in 1..D |->
                IF Dist2Sq(D, r, c) <= (D - 1) * (D - 1)
                THEN Interp(window1, D, Dist2Sq(D, r, c)) ELSE I(0)]])

(***************************************************************************)
(* The builders.  Dim is a pair <<rows, columns>>.                         *)
(***************************************************************************)
\* (mutant of DefaultDiameter) the sentinel 0 stands for the smaller dimension
DefaultDiameterMin(Dim, Diameter) ==
    IF Diameter = 0 THEN (IF Dim[1] < Dim[2] THEN Dim[1] ELSE Dim[2])
    ELSE Diameter

\* lines 62-63 and 350-351: if Diameter == 0: Diameter = max(Dim)
DefaultDiameter(Dim, Diameter) ==
    IF Diameter = 0 THEN (IF Dim[1] > Dim[2] THEN Dim[1] ELSE Dim[2])
    ELSE Diameter

build2DLP(Window, Dim, Diameter, Outer, Cont) ==
    LET D == DefaultDiameter(Dim, Diameter)
        window1 == get_window(Window, D)
    IN  CHOOSE o \in {IF ~IsOk(window2) THEN window2
                      ELSE resizeToMatch(window2.arr, Dim, Cont, NoneC) :
                      window2 \in {IF Outer THEN Ok(outer(window1, window1))
                                   ELSE rotate(window1, D)}} : TRUE

\* np.ones(Dim) - B for the outcome B of a builder
Complement(Dim, B) ==
    IF ~IsOk(B) THEN B ELSE ArrSub(Ones(Dim[1], Dim[2]), B.arr)

build2DHP(Window, Dim, Diameter, Outer, Cont) ==
    Complement(Dim, build2DLP(Window, Dim, Diameter, Outer, Cont))

build2DBP(Window, Dim, Diameter, Width, Cont) ==
    LET D == DefaultDiameter(Dim, Diameter)
        w == get_window(Window, Width)
    IN  IF D - Width < 0 THEN Raise("ValueError")   \* np.zeros(negative)
        ELSE LET window1 == [i \in 1..(D - Width) |-> I(0)] \o w
             IN  CHOOSE o \in {IF ~IsOk(window2) THEN window2
                               ELSE resizeToMatch(window2.arr, Dim, Cont, NoneC) :
                               window2 \in {rotate(window1, D)}} : TRUE

build2DBS(Window, Dim, Diameter, Width, Cont) ==
    Complement(Dim, build2DBP(Window, Dim, Diameter, Width, Cont))

build2DVBP(Window, Dim, Center, Width) ==
    LET window1 == get_window(Window, Width)
        post == Dim[2] + (Width \div 2) - Center
        pre == Dim[2] - post - Width
        w1 == IF pre < 0 THEN PySlice(window1, Abs(pre), Len(window1))
              ELSE window1
        pre1 == IF pre < 0 THEN 0 ELSE pre
    IN  IF post < 0 THEN Raise("ValueError")        \* np.zeros(negative)
        ELSE LET windowLine == [i \in 1..pre1 |-> I(0)] \o w1
                                   \o [i \in 1..post |-> I(0)]
             IN  \* window2[:, ] = windowLine broadcasts the line to every row
                 IF Len(windowLine) = Dim[2]
                 THEN Ok([i \in 1..Dim[1] |-> windowLine])
                 ELSE IF Len(windowLine) = 1
                 THEN Ok(Fill(Dim[1], Dim[2], windowLine[1]))
                 ELSE Raise("ValueError")

build2DVBS(Window, Dim, Center, Width) ==
    Complement(Dim, build2DVBP(Window, Dim, Center, Width))

build2DHBP(Window, Dim, Center, Width) ==
    CHOOSE o \in {IF ~IsOk(v) THEN v ELSE Ok(Transpose(v.arr)) :
                      v \in {build2DVBP(Window, <<Dim[2], Dim[1]>>, Center, Width)}} : TRUE

build2DHBS(Window, Dim, Center, Width) ==
    Complement(Dim, build2DHBP(Window, Dim, Center, Width))

buildNF(Window, Dim, Center, Width) ==
    CHOOSE o \in {IF ~IsOk(base) THEN base
                  ELSE Complement(Dim, resizeToMatch(base.arr, Dim, TRUE, Center)) :
                  base \in {build2DLP(Window, <<Width, Width>>, Width, FALSE, TRUE)}} : TRUE

(***************************************************************************)
(* The non-linear transforms.                                              *)
(***************************************************************************)
RECURSIVE SumSeq(_)
SumSeq(s) == IF Len(s) = 0 THEN I(0) ELSE VAdd(s[1], SumSeq(Tail(s)))

RECURSIVE Flatten(_)
Flatten(A) == IF Len(A) = 0 THEN <<>> ELSE A[1] \o Flatten(Tail(A))

\* np.mean: NaN for an empty block
Mean(A) ==
    LET s == Flatten(A)
    IN  IF Len(s) = 0 THEN NaN ELSE VMul(SumSeq(s), Q(1, Len(s)))

\* (mutant of DCEstimate) the four means are summed and not averaged
DCEstimateSum(Kspace, Size) ==
    LET corner1 == Mean(SliceCols(SliceRows(Kspace, 0, Size), 0, Size))
        corner2 == Mean(SliceCols(SliceRows(Kspace, 0, -Size), 0, Size))
        corner3 == Mean(SliceCols(SliceRows(Kspace, 0, -Size), 0, -Size))
        corner4 == Mean(SliceCols(SliceRows(Kspace, 0, Size), 0, -Size))
    IN  VAdd(VAdd(VAdd(corner1, corner2), corner3), corner4)

\* the scalar computeDCOffset subtracts, lines 1246-1250
DCEstimate(Kspace, Size) ==
    LET corner1 == Mean(SliceCols(SliceRows(Kspace, 0, Size), 0, Size))
        corner2 == Mean(SliceCols(SliceRows(Kspace, 0, -Size), 0, Size))
        corner3 == Mean(SliceCols(SliceRows(Kspace, 0, -Size), 0, -Size))
        corner4 == Mean(SliceCols(SliceRows(Kspace, 0, Size), 0, -Size))
    IN  VMul(VAdd(VAdd(VAdd(corner1, corner2), corner3), corner4), Q(1, 4))

computeDCOffset(Kspace, Size) ==
    [i \in 1..Rows(Kspace) |-> [j \in 1..Cols(Kspace) |->
        VSub(Kspace[i][j], DCEstimate(Kspace, Size))]]

\* np.log10(1.0 + x) of one element: NaN below 0, -inf at 0 (numpy warns and
\* goes on, it does not raise); exact at the powers of ten, otherwise an
\* irrational named by an atom
Log10(y) ==
    IF y.k = "nan" THEN NaN
    ELSE IF y.k = "inf" THEN (IF y.n = 1 THEN y ELSE NaN)
    ELSE IF y.k = "x" THEN X(RZero, <<1, 1>>, <<"log10x", y>>)
    ELSE IF y.n < 0 THEN NaN
    ELSE IF y.n = 0 THEN Inf(-1)
    ELSE IF y = I(1) THEN I(0)
    ELSE IF y = I(10) THEN I(1)
    ELSE IF y = I(100) THEN I(2)
    ELSE IF y = Q(1, 10) THEN I(-1)
    ELSE X(RZero, <<1, 1>>, <<"log10", y.n, y.d>>)

\* (mutant of LogTransform) the result is flattened into one row
LogTransformRavel(x) ==
    <<Flatten([i \in 1..Rows(x) |-> [j \in 1..Cols(x) |->
                  Log10(VAdd(I(1), x[i][j]))]])>>

\* line 1354: the lambda x: np.log10(1.0+x)
LogTransform(x) ==
    [i \in 1..Rows(x) |-> [j \in 1..Cols(x) |-> Log10(VAdd(I(1), x[i][j]))]]

\* (mutant of GammaTransform) the exponent is ignored
GammaTransformIdentity(x, Gamma) == x

\* line 1395: the lambda x: x**Gamma
GammaTransform(x, Gamma) ==
    [i \in 1..Rows(x) |-> [j \in 1..Cols(x) |-> VPow(x[i][j], Gamma)]]

\* log10 is outside its domain on some element of x
LogDomainError(x) ==
    \E i \in 1..Rows(x) : \E j \in 1..Cols(x) :
        LET y == VAdd(I(1), x[i][j])
        IN  \/ (y.k = "q" /\ y.n <= 0)
            \/ (y.k = "inf" /\ y.n = -1)

(***************************************************************************)
(* GFilter objects: params is the descriptor, function the lambda with the *)
(* arguments it closed over (op names the lambda's body).                  *)
(***************************************************************************)
\* lines 162-166 (and each make*): Name, and Shape for a parametric window
WindowName(Window) ==
    IF Window.str THEN [Name |-> Window.name]
    ELSE [Name |-> Window.name, Shape |-> Window.shape]

GFilter(Par) == [params |-> Par, function |-> [op |-> "id"]]

makeLPF(Window, Dim, Diameter, Outer, Cont) ==
    [params |-> [Type |-> "Low Pass", Linear |-> TRUE, Dim |-> Dim,
                 Diameter |-> Diameter, Outer |-> Outer, Contour |-> Cont]
                @@ WindowName(Window),
     function |-> [op |-> "LP", Window |-> Window, Dim |-> Dim,
                   Diameter |-> Diameter, Outer |-> Outer, Cont |-> Cont]]

\* (mutant of makeHPF) the transform multiplies by the low-pass mask
makeHPFLow(Window, Dim, Diameter, Outer, Cont) ==
    [params |-> [Type |-> "High Pass", Linear |-> TRUE, Dim |-> Dim,
                 Diameter |-> Diameter, Outer |-> Outer, Contour |-> Cont]
                @@ WindowName(Window),
     function |-> [op |-> "LP", Window |-> Window, Dim |-> Dim,
                   Diameter |-> Diameter, Outer |-> Outer, Cont |-> Cont]]

makeHPF(Window, Dim, Diameter, Outer, Cont) ==
    [params |-> [Type |-> "High Pass", Linear |-> TRUE, Dim |-> Dim,
                 Diameter |-> Diameter, Outer |-> Outer, Contour |-> Cont]
                @@ WindowName(Window),
     function |-> [op |-> "HP", Window |-> Window, Dim |-> Dim,
                   Diameter |-> Diameter, Outer |-> Outer, Cont |-> Cont]]

makeBPF(Window, Dim, Diameter, Width, Cont) ==
    [params |-> [Type |-> "Band Pass", Linear |-> TRUE, Dim |-> Dim,
                 Diameter |-> Diameter, Width |-> Width, Contour |-> Cont]
                @@ WindowName(Window),
     function |-> [op |-> "BP", Window |-> Window, Dim |-> Dim,
                   Diameter |-> Diameter, Width |-> Width, Cont |-> Cont]]

makeBSF(Window, Dim, Diameter, Width, Cont) ==
    [params |-> [Type |-> "Band Stop", Linear |-> TRUE, Dim |-> Dim,
                 Diameter |-> Diameter, Width |-> Width, Contour |-> Cont]
                @@ WindowName(Window),
     function |-> [op |-> "BS", Window |-> Window, Dim |-> Dim,
                   Diameter |-> Diameter, Width |-> Width, Cont |-> Cont]]

makeVBPF(Window, Dim, Center, Width) ==
    [params |-> [Type |-> "Vertical Band Pass", Linear |-> TRUE, Dim |-> Dim,
                 Center |-> Center, Width |-> Width] @@ WindowName(Window),
     function |-> [op |-> "VBP", Window |-> Window, Dim |-> Dim,
                   Center |-> Center, Width |-> Width]]

makeVBSF(Window, Dim, Center, Width) ==
    [params |-> [Type |-> "Vertical Band Stop", Linear |-> TRUE, Dim |-> Dim,
                 Center |-> Center, Width |-> Width] @@ WindowName(Window),
     function |-> [op |-> "VBS", Window |-> Window, Dim |-> Dim,
                   Center |-> Center, Width |-> Width]]

makeHBPF(Window, Dim, Center, Width) ==
    [params |-> [Type |-> "Horizontal Band Pass", Linear |-> TRUE, Dim |-> Dim,
                 Center |-> Center, Width |-> Width] @@ WindowName(Window),
     function |-> [op |-> "HBP", Window |-> Window, Dim |-> Dim,
                   Center |-> Center, Width |-> Width]]

makeHBSF(Window, Dim, Center, Width) ==
    [params |-> [Type |-> "Horizontal Band Stop", Linear |-> TRUE, Dim |-> Dim,
                 Center |-> Center, Width |-> Width] @@ WindowName(Window),
     function |-> [op |-> "HBS", Window |-> Window, Dim |-> Dim,
                   Center |-> Center, Width |-> Width]]

\* (mutant of makeNF) the descriptor is given a Diameter as well
makeNFDiameter(Window, Dim, Center, Width) ==
    [params |-> [Type |-> "Notch", Linear |-> TRUE, Dim |-> Dim,
                 Center |-> Center, Width |-> Width, Diameter |-> Width]
                @@ WindowName(Window),
     function |-> [op |-> "NF", Window |-> Window, Dim |-> Dim,
                   Center |-> Center, Width |-> Width]]

makeNF(Window, Dim, Center, Width) ==
    [params |-> [Type |-> "Notch", Linear |-> TRUE, Dim |-> Dim,
                 Center |-> Center, Width |-> Width] @@ WindowName(Window),
     function |-> [op |-> "NF", Window |-> Window, Dim |-> Dim,
                   Center |-> Center, Width |-> Width]]

makeDCO(Size) ==
    [params |-> [Name |-> "DC Offset", Type |-> "DC Offset", Linear |-> FALSE,
                 Size |-> Size],
     function |-> [op |-> "DCO", Size |-> Size]]

makeLogTransform ==
    [params |-> [Type |-> "Log Transform", Linear |-> FALSE],
     function |-> [op |-> "Log"]]

makeGammaTransform(Gamma) ==
    [params |-> [Type |-> "Gamma Transform", Linear |-> FALSE, Gamma |-> Gamma],
     function |-> [op |-> "Gamma", Gamma |-> Gamma]]

\* x * mask for the outcome of a mask builder
TimesMask(x, m) == IF ~IsOk(m) THEN m ELSE ArrMul(x, m.arr)

\* filt.function(x): the outcome of calling the lambda f on the array x
Call(f, x) ==
    CASE f.op = "LP" ->
            TimesMask(x, build2DLP(f.Window, f.Dim, f.Diameter, f.Outer, f.Cont))
      [] f.op = "HP" ->
            TimesMask(x, build2DHP(f.Window, f.Dim, f.Diameter, f.Outer, f.Cont))
      [] f.op = "BP" ->
            TimesMask(x, build2DBP(f.Window, f.Dim, f.Diameter, f.Width, f.Cont))
      [] f.op = "BS" ->
            TimesMask(x, build2DBS(f.Window, f.Dim, f.Diameter, f.Width, f.Cont))
      [] f.op = "VBP" ->
            TimesMask(x, build2DVBP(f.Window, f.Dim, f.Center, f.Width))
      [] f.op = "VBS" ->
            TimesMask(x, build2DVBS(f.Window, f.Dim, f.Center, f.Width))
      [] f.op = "HBP" ->
            TimesMask(x, build2DHBP(f.Window, f.Dim, f.Center, f.Width))
      [] f.op = "HBS" ->
            TimesMask(x, build2DHBS(f.Window, f.Dim, f.Center, f.Width))
      [] f.op = "NF" ->
            TimesMask(x, buildNF(f.Window, f.Dim, f.Center, f.Width))
      [] f.op = "DCO" -> Ok(computeDCOffset(x, f.Size))
      [] f.op = "Log" -> Ok(LogTransform(x))
      [] f.op = "Gamma" -> Ok(GammaTransform(x, f.Gamma))
      [] OTHER -> Ok(x)

(***************************************************************************)
(* applyStack(Data, Stack), lines 1436-1439, run by a caller that holds    *)
(* Data and Stack and may write into the array it gets back.               *)
(*   heap      the arrays allocated so far; an array object is its index   *)
(*   dataRef   the caller's Data (always object 1)                         *)
(*   Stack     the caller's list of GFilter objects                        *)
(*   filtered  the local variable filtered (0 before the call)             *)
(*   k         how many filters of Stack the for loop has consumed         *)
(*   pc        "start", "loop", "returned", "raised", "written"            *)
(*   err       the exception applyStack ended in ("none" otherwise)        *)
(*   result    the object returned to the caller (0: none)                 *)
(* and, for the statements about it,                                       *)
(*   applied   the indices of the filters whose function was called        *)
(*   inputs    the value each call received                                *)
(*   outputs   the value each call returned                                *)
(*   Data0, Stack0   Data and Stack as they were before the call           *)
(***************************************************************************)
VARIABLES heap, dataRef, Stack, filtered, k, pc, err, result,
          applied, inputs, outputs, Data0, Stack0

\* the inputs and the outcome of a call of a pure function (the
\* specifications of the resampler and of the builders)
VARIABLES args, ret

(***************************************************************************)
(* The main window and its filter configuration dialog (mr_magic.py,       *)
(* filter_config_class.py).  A Python list is an object: two names may     *)
(* hold the same list.                                                     *)
(*   lists       the list objects: lists[r] is the content of list r       *)
(*   mainStack   the main window's self.filterStack, a reference           *)
(*   dlgStack    the dialog's self.filterStack (0: no dialog was built)    *)
(*   currentRow  filterList.currentRow() of the dialog, -1 for no row      *)
(*   dialog      "none", "open", "failed" (the constructor raised),        *)
(*               "accepted" or "rejected"                                  *)
(*   datafilt    the main window's self.datafilt, an outcome               *)
(* and, for the statements about them,                                     *)
(*   before      the content of the main window's stack when               *)
(*               _filtConfigure was called                                 *)
(*   lastOp      the handler that ran last                                 *)
(***************************************************************************)
VARIABLES lists, mainStack, dlgStack, currentRow, dialog, datafilt,
          before, lastOp

configVars == <<lists, mainStack, dlgStack, currentRow, dialog, datafilt,
                before, lastOp>>

\* no main window: the state of these variables in the other specifications
ConfigIdle ==
    /\ lists = <<>>
    /\ mainStack = 0
    /\ dlgStack = 0
    /\ currentRow = -1
    /\ dialog = "none"
    /\ datafilt = [err |-> "pending", arr |-> <<>>]
    /\ before = <<>>
    /\ lastOp = "none"

vars == <<scipyOnePoint, heap, dataRef, Stack, filtered, k, pc, err, result,
          applied, inputs, outputs, Data0, Stack0, args, ret, configVars>>

stackVars == <<heap, dataRef, Stack, filtered, k, pc, err, result,
               applied, inputs, outputs, Data0, Stack0>>

\* bounds of the applyStack specification
MaxStack == 2

StackShapes == {<<2, 2>>, <<1, 2>>}

StackValues == {I(-2), I(0), I(3)}

StackData ==
    UNION {[1..s[1] -> [1..s[2] -> StackValues]] : s \in StackShapes}

\* the filter objects a stack is drawn from: every non-linear builder, masks
\* of the data's shapes (one of them resampled), a mask of another shape and a
\* builder call that fails
StackFilters ==
    {makeGammaTransform(1), makeGammaTransform(2), makeDCO(1),
     makeLogTransform,
     makeLPF(Boxcar, <<2, 2>>, 1, TRUE, FALSE),
     makeVBPF(Boxcar, <<2, 2>>, 1, 1),
     makeLPF(Boxcar, <<3, 3>>, 0, TRUE, FALSE),
     makeVBPF(Boxcar, <<2, 2>>, 0, 3),
     makeLPF(Boxcar, <<1, 2>>, 0, TRUE, TRUE)}

StackLists == UNION {[1..n -> StackFilters] : n \in 0..MaxStack}

\* the value written by the caller into the returned array
Scribble == I(7)

IdleCall == [fn |-> "none"]

StackInit ==
    /\ scipyOnePoint = "raise"
    /\ \E d \in StackData : heap = <<d>> /\ Data0 = d
    /\ dataRef = 1
    /\ \E st \in StackLists : Stack = st /\ Stack0 = st
    /\ filtered = 0
    /\ k = 0
    /\ pc = "start"
    /\ err = "none"
    /\ result = 0
    /\ applied = <<>>
    /\ inputs = <<>>
    /\ outputs = <<>>
    /\ args = IdleCall
    /\ ret = IdleCall
    /\ ConfigIdle

\* (mutant of copy) no copy is made: filtered is Data itself
copyAliased(h, ref) == h

\* np.copy(Data): a new array object holding the values of Data
copy(h, ref) == Append(h, h[ref])

\* line 1436: filtered = np.copy(Data)
ApplyCopy ==
    /\ pc = "start"
    /\ heap' = copy(heap, dataRef)
    /\ filtered' = Len(heap')
    /\ pc' = "loop"
    /\ UNCHANGED <<scipyOnePoint, dataRef, Stack, k, err, result, applied,
                   inputs, outputs, Data0, Stack0, args, ret,
                   configVars>>

\* (mutant of NextFilter) the loop walks the list from its end
NextFilterReversed == Stack[Len(Stack) - k]

\* the filter the for loop of line 1437 hands out next
NextFilter == Stack[k + 1]

\* line 1438: filtered = filt.function(filtered), the call returning
ApplyFilter ==
    /\ pc = "loop"
    /\ k < Len(Stack)
    /\ LET o == Call(NextFilter.function, heap[filtered])
       IN  /\ IsOk(o)
           /\ IF NextFilter.function.op = "id"
              THEN heap' = heap /\ filtered' = filtered
              ELSE heap' = Append(heap, o.arr) /\ filtered' = Len(heap')
           /\ outputs' = Append(outputs, o.arr)
    /\ inputs' = Append(inputs, heap[filtered])
    /\ applied' = Append(applied, k + 1)
    /\ k' = k + 1
    /\ UNCHANGED <<scipyOnePoint, dataRef, Stack, pc, err, result,
                   Data0, Stack0, args, ret,
                   configVars>>

\* (mutant of ApplyRaise) the exception is caught and the filter skipped
ApplyRaiseCaught ==
    /\ pc = "loop"
    /\ k < Len(Stack)
    /\ ~IsOk(Call(NextFilter.function, heap[filtered]))
    /\ inputs' = Append(inputs, heap[filtered])
    /\ outputs' = Append(outputs, heap[filtered])
    /\ applied' = Append(applied, k + 1)
    /\ k' = k + 1
    /\ UNCHANGED <<scipyOnePoint, heap, dataRef, Stack, filtered, pc, err,
                   result, Data0, Stack0, args, ret,
                   configVars>>

\* line 1438, the call raising: nothing catches it, applyStack ends
ApplyRaise ==
    /\ pc = "loop"
    /\ k < Len(Stack)
    /\ LET o == Call(NextFilter.function, heap[filtered])
       IN  /\ ~IsOk(o)
           /\ err' = o.err
    /\ inputs' = Append(inputs, heap[filtered])
    /\ applied' = Append(applied, k + 1)
    /\ pc' = "raised"
    /\ UNCHANGED <<scipyOnePoint, heap, dataRef, Stack, filtered, k, result,
                   outputs, Data0, Stack0, args, ret,
                   configVars>>

\* line 1439: return filtered
ApplyReturn ==
    /\ pc = "loop"
    /\ k = Len(Stack)
    /\ result' = filtered
    /\ pc' = "returned"
    /\ UNCHANGED <<scipyOnePoint, heap, dataRef, Stack, filtered, k, err,
                   applied, inputs, outputs, Data0, Stack0, args, ret,
                   configVars>>

\* the caller writes into the array it was handed
WriteResult ==
    /\ pc = "returned"
    /\ \E i \in 1..Rows(heap[result]) : \E j \in 1..Cols(heap[result]) :
          heap' = [heap EXCEPT ![result][i][j] = Scribble]
    /\ pc' = "written"
    /\ UNCHANGED <<scipyOnePoint, dataRef, Stack, filtered, k, err, result,
                   applied, inputs, outputs, Data0, Stack0, args, ret,
                   configVars>>

StackNext ==
    \/ ApplyCopy
    \/ ApplyFilter
    \/ ApplyRaise
    \/ ApplyReturn
    \/ WriteResult

Spec == StackInit /\ [][StackNext]_vars

(***************************************************************************)
(* applyStack as a function: the outcome of the whole call.                *)
(***************************************************************************)
\* (mutant of FoldFrom) the loop returns after the first filter
FoldFirstOnly(x, st, i) ==
    IF i > Len(st) THEN Ok(x) ELSE Call(st[i].function, x)

RECURSIVE FoldFrom(_, _, _)
FoldFrom(x, st, i) ==
    IF i > Len(st) THEN Ok(x)
    ELSE \* o is the outcome of the call, computed once: the singleton binds it
         CHOOSE r \in {IF ~IsOk(o) THEN o ELSE FoldFrom(o.arr, st, i + 1) :
                           o \in {Call(st[i].function, x)}} : TRUE

applyStack(Data, St) == FoldFrom(Data, St, 1)

(***************************************************************************)
(* Claims about applyStack, checked under Spec.                            *)
(***************************************************************************)
Returned == pc = "returned"

\* C1: when applyStack returns, the function of every filter of the stack was
\* called exactly once, in list order from the first to the last, the first on
\* a copy of Data and each later one on what the previous one returned, and
\* the array returned is what the last call returned (the left fold).
C1_LeftFold ==
    Returned =>
        /\ applied = [i \in 1..Len(Stack0) |-> i]
        /\ \A i \in 1..Len(Stack0) :
              /\ inputs[i] = (IF i = 1 THEN Data0 ELSE outputs[i - 1])
              /\ Ok(outputs[i]) = Call(Stack0[i].function, inputs[i])
        /\ heap[result] =
              (IF Len(Stack0) = 0 THEN Data0 ELSE outputs[Len(Stack0)])
        /\ Ok(heap[result]) = applyStack(Data0, Stack0)

\* C1 witness: a two-filter stack (gamma 2, then DC offset) has returned an
\* array that differs from Data.
C1_Witness ==
    /\ Returned
    /\ Len(Stack0) >= 2
    /\ Stack0[1] = makeGammaTransform(2)
    /\ Stack0[2] = makeDCO(1)
    /\ heap[result] # Data0

\* C2: applyStack mutates none of its inputs: Data holds the values it held
\* before the call, also after the caller has written into the result; Stack
\* holds the same filter objects in the same order; and for the empty stack
\* the result equals Data elementwise but is another array object.
C2_InputsUntouched ==
    /\ heap[dataRef] = Data0
    /\ Stack = Stack0
    /\ (pc \in {"returned", "written"} => result # dataRef)
    /\ (Returned /\ Len(Stack0) = 0 => ArrEq(heap[result], Data0))

\* C2 witness: the empty stack was applied and the caller wrote into the
\* result, which now differs from Data.
C2_Witness ==
    /\ pc = "written"
    /\ Len(Stack0) = 0
    /\ ~ArrEq(heap[result], Data0)

\* the call of filter i raised / met a numeric domain error
CallRaised(i) == ~IsOk(Call(Stack0[i].function, inputs[i]))

CallDomainError(i) ==
    Stack0[i].function.op = "Log" /\ LogDomainError(inputs[i])

\* C3 as stated: a call that fails, by raising or by a numeric domain error,
\* ends applyStack in that error: no array is returned and no later filter
\* is applied.
C3_Original ==
    \A i \in 1..Len(inputs) :
        (CallRaised(i) \/ CallDomainError(i)) =>
            /\ pc = "raised"
            /\ result = 0
            /\ Len(applied) = i

\* C3 amended: a call that raises (a mask that cannot be broadcast against the
\* data, or a mask builder that fails) ends applyStack in that same error, no
\* array is returned and no later filter is applied; a numeric domain error
\* (log10 of an element <= -1 ... ) raises nothing: the call returns an array
\* holding NaN or -inf there.
C3_RaisePropagates ==
    \A i \in 1..Len(inputs) :
        /\ CallRaised(i) =>
              /\ pc = "raised"
              /\ err = Call(Stack0[i].function, inputs[i]).err
              /\ result = 0
              /\ Len(applied) = i
              /\ Len(outputs) = i - 1
        /\ CallDomainError(i) =>
              /\ ~CallRaised(i)
              /\ Len(outputs) >= i
              /\ \E r \in 1..Rows(outputs[i]) : \E c \in 1..Cols(outputs[i]) :
                    outputs[i][r][c].k \in {"nan", "inf"}

\* C3 witness: the first of two filters raised; the second was never applied.
C3_Witness ==
    /\ pc = "raised"
    /\ err = "ValueError"
    /\ Len(Stack0) = 2
    /\ applied = <<1>>

IsConstArr(A) == \A i \in 1..Rows(A) : \A j \in 1..Cols(A) : A[i][j] = A[1][1]

(***************************************************************************)
(* The pure functions, each called once on inputs drawn from bounded sets: *)
(* args holds the call, ret what it yielded.  The variables of applyStack  *)
(* stay idle.                                                              *)
(***************************************************************************)
Pending == [err |-> "pending", arr |-> <<>>]

StackIdle ==
    /\ heap = <<>>
    /\ dataRef = 0
    /\ Stack = <<>>
    /\ filtered = 0
    /\ k = 0
    /\ pc = "idle"
    /\ err = "none"
    /\ result = 0
    /\ applied = <<>>
    /\ inputs = <<>>
    /\ outputs = <<>>
    /\ Data0 = <<>>
    /\ Stack0 = <<>>

\* an array whose element in row i, column j is 10*i + j: every element differs
Tagged(r, c) == [i \in 1..r |-> [j \in 1..c |-> I(10 * i + j)]]

(***************************************************************************)
(* SpecResize: resizeToMatch.                                              *)
(***************************************************************************)
MaxWin == 3

MaxSize == 4

ResizeCenters ==
    {NoneC, IntC(0)} \cup {TupC(c0, c1) : c0 \in 0..2, c1 \in 0..2}

ResizeArgs ==
    [fn : {"resizeToMatch"},
     Window : {Tagged(r, c) : r \in 1..MaxWin, c \in 1..MaxWin},
     Size : (1..MaxSize) \X (1..MaxSize),
     Cont : BOOLEAN,
     Center : ResizeCenters]

ResizeInit ==
    /\ StackIdle
    /\ ConfigIdle
    /\ scipyOnePoint = "raise"
    /\ args \in ResizeArgs
    /\ ret = Pending

CallResize ==
    /\ args.fn = "resizeToMatch"
    /\ ret = Pending
    /\ ret' = resizeToMatch(args.Window, args.Size, args.Cont, args.Center)
    /\ UNCHANGED <<scipyOnePoint, stackVars, configVars, args>>

ResizeNext == CallResize

SpecResize == ResizeInit /\ [][ResizeNext]_vars

\* C5 as stated: resizeToMatch always returns, without error, an array whose
\* shape is exactly Size, for both contour policies, with or without an
\* explicit Center (a pair).
C5_Original ==
    (args.fn = "resizeToMatch" /\ ret # Pending /\ args.Center.t # "int")
    => (IsOk(ret) /\ Shape(ret.arr) = args.Size)

(***************************************************************************)
(* SpecBuild: the mask builders.  A call of a pass builder is followed by  *)
(* the call of its stop builder with the same parameters.                  *)
(***************************************************************************)
MaxLPDim == 8

MaxDim == 4

LPArgs ==
    [fn : {"LP"}, Window : {Boxcar, Triang},
     Dim : (1..MaxLPDim) \X (1..MaxLPDim), Diameter : 0..MaxLPDim,
     Outer : BOOLEAN, Cont : BOOLEAN]

BPArgs ==
    [fn : {"BP"}, Window : {Boxcar, Triang},
     Dim : (1..MaxDim) \X (1..MaxDim), Diameter : 0..MaxDim,
     Width : 1..MaxDim, Cont : BOOLEAN]

AxisArgs ==
    [fn : {"VBP", "HBP"}, Window : {Boxcar, Triang},
     Dim : (1..MaxDim) \X (1..MaxDim), Center : 0..(MaxDim - 1),
     Width : 1..MaxDim]

NFArgs ==
    [fn : {"NF"}, Window : {Boxcar, Triang},
     Dim : (1..MaxDim) \X (1..MaxDim),
     Center : {IntC(0)} \cup
              {TupC(c0, c1) : c0 \in 0..(MaxDim - 1), c1 \in 0..(MaxDim - 1)},
     Width : 1..MaxDim]

BuildInit ==
    /\ StackIdle
    /\ ConfigIdle
    /\ scipyOnePoint \in {"raise", "interpolate"}
    /\ args \in LPArgs \cup BPArgs \cup AxisArgs \cup NFArgs
    /\ ret = [pass |-> Pending, stop |-> Pending]

SetPass(fn, o) ==
    /\ args.fn = fn
    /\ ret.pass = Pending
    /\ ret' = [ret EXCEPT !.pass = o]
    /\ UNCHANGED <<scipyOnePoint, stackVars, configVars, args>>

SetStop(fn, o) ==
    /\ args.fn = fn
    /\ ret.pass # Pending
    /\ ret.stop = Pending
    /\ ret' = [ret EXCEPT !.stop = o]
    /\ UNCHANGED <<scipyOnePoint, stackVars, configVars, args>>

CallBuild2DLP ==
    SetPass("LP", build2DLP(args.Window, args.Dim, args.Diameter,
                            args.Outer, args.Cont))

CallBuild2DHP ==
    SetStop("LP", build2DHP(args.Window, args.Dim, args.Diameter,
                            args.Outer, args.Cont))

CallBuild2DBP ==
    SetPass("BP", build2DBP(args.Window, args.Dim, args.Diameter,
                            args.Width, args.Cont))

CallBuild2DBS ==
    SetStop("BP", build2DBS(args.Window, args.Dim, args.Diameter,
                            args.Width, args.Cont))

CallBuild2DVBP ==
    SetPass("VBP", build2DVBP(args.Window, args.Dim, args.Center, args.Width))

CallBuild2DVBS ==
    SetStop("VBP", build2DVBS(args.Window, args.Dim, args.Center, args.Width))

CallBuild2DHBP ==
    SetPass("HBP", build2DHBP(args.Window, args.Dim, args.Center, args.Width))

CallBuild2DHBS ==
    SetStop("HBP", build2DHBS(args.Window, args.Dim, args.Center, args.Width))

CallBuildNF ==
    SetPass("NF", buildNF(args.Window, args.Dim, args.Center, args.Width))

BuildNext ==
    \/ CallBuild2DLP
    \/ CallBuild2DHP
    \/ CallBuild2DBP
    \/ CallBuild2DBS
    \/ CallBuild2DVBP
    \/ CallBuild2DVBS
    \/ CallBuild2DHBP
    \/ CallBuild2DHBS
    \/ CallBuildNF

SpecBuild == BuildInit /\ [][BuildNext]_vars

\* pass + stop is the all-ones array of shape Dim
Complementary ==
    /\ IsOk(ret.pass)
    /\ IsOk(ret.stop)
    /\ ArrAdd(ret.pass.arr, ret.stop.arr) = Ok(Ones(args.Dim[1], args.Dim[2]))

\* C6 as stated: for every window, Dim, Diameter (0 included), construction
\* mode, contour policy and positive Width, build2DLP + build2DHP and
\* build2DBP + build2DBS are the all-ones array of shape Dim.  (Stated for the
\* scipy that interpolates a one-point profile, so that no failure of that
\* library call counts against the claim.)
C6_Original ==
    (/\ args.fn \in {"LP", "BP"}
     /\ ret.stop # Pending
     /\ scipyOnePoint = "interpolate")
    => Complementary

\* C7 as stated: for every Center inside the grid and every positive Width,
\* build2DVBP + build2DVBS and build2DHBP + build2DHBS are the all-ones array
\* of shape Dim, each call returning an array.
C7_Original ==
    (/\ args.fn \in {"VBP", "HBP"}
     /\ ret.stop # Pending
     /\ args.Center < (IF args.fn = "VBP" THEN args.Dim[2] ELSE args.Dim[1]))
    => Complementary

MinDim == IF args.Dim[1] < args.Dim[2] THEN args.Dim[1] ELSE args.Dim[2]

\* C8: with the boxcar window, Outer = True and Cont = False, build2DLP for
\* 0 < Diameter <= min(Dim) returns a binary array of shape Dim that is 1 on
\* the Diameter x Diameter block starting at row floor((Dim[0]-Diameter)/2),
\* column floor((Dim[1]-Diameter)/2), and 0 elsewhere.
C8_BoxcarBlock ==
    (/\ args.fn = "LP"
     /\ ret.pass # Pending
     /\ args.Window = Boxcar /\ args.Outer /\ ~args.Cont
     /\ 0 < args.Diameter /\ args.Diameter <= MinDim)
    => /\ IsOk(ret.pass)
       /\ Shape(ret.pass.arr) = args.Dim
       /\ LET r0 == (args.Dim[1] - args.Diameter) \div 2
              c0 == (args.Dim[2] - args.Diameter) \div 2
          IN  \A i \in 1..args.Dim[1] : \A j \in 1..args.Dim[2] :
                ret.pass.arr[i][j] =
                    IF /\ r0 < i /\ i <= r0 + args.Diameter
                       /\ c0 < j /\ j <= c0 + args.Diameter
                    THEN I(1) ELSE I(0)

\* C8 witness: Dim = (8, 8), Diameter = 4: ones on the central 4 x 4 block
\* (rows and columns 2..5 counted from 0), zeros around it.
C8_Witness ==
    /\ args.fn = "LP"
    /\ args.Window = Boxcar /\ args.Outer /\ ~args.Cont
    /\ args.Dim = <<8, 8>> /\ args.Diameter = 4
    /\ IsOk(ret.pass)
    /\ ret.pass.arr[3][3] = I(1) /\ ret.pass.arr[6][6] = I(1)
    /\ ret.pass.arr[2][3] = I(0) /\ ret.pass.arr[7][6] = I(0)

\* C10 as stated: with a window of peak 1 (boxcar), a Center inside the grid
\* and a Width smaller than Dim, buildNF is 0 at the pixel Center and 1 at
\* every pixel farther than roughly Width/2 (here: Width/2 + 1) from Center.
\* (Stated for a square Dim, where the resampling of buildNF changes nothing,
\* and for the scipy that interpolates a one-point profile.)
C10_Original ==
    (/\ args.fn = "NF"
     /\ ret.pass # Pending
     /\ scipyOnePoint = "interpolate"
     /\ args.Window = Boxcar
     /\ args.Center.t = "tuple"
     /\ args.Center.v[1] < args.Dim[1] /\ args.Center.v[2] < args.Dim[2]
     /\ args.Dim[1] = args.Dim[2]
     /\ args.Width < MinDim)
    => /\ IsOk(ret.pass)
       /\ ret.pass.arr[args.Center.v[1] + 1][args.Center.v[2] + 1] = I(0)
       /\ \A i \in 1..args.Dim[1] : \A j \in 1..args.Dim[2] :
             LET dr == i - 1 - args.Center.v[1]
                 dc == j - 1 - args.Center.v[2]
             IN  4 * (dr * dr + dc * dc) > (args.Width + 2) * (args.Width + 2)
                 => ret.pass.arr[i][j] = I(1)

(***************************************************************************)
(* SpecNonlinear: computeDCOffset alone, and the two orders of a gamma     *)
(* transform (2) and a DC offset filter in a stack.                        *)
(***************************************************************************)
MaxDCOSize == 3

DCOData ==
    [1..3 -> [1..3 -> {I(0), I(5)}]] \cup [1..2 -> [1..3 -> {I(-5), I(0), I(5)}]]

NonlinearInit ==
    /\ StackIdle
    /\ ConfigIdle
    /\ scipyOnePoint = "raise"
    /\ args \in [fn : {"DCO", "Order"}, Kspace : DCOData, Size : 1..MaxDCOSize]
    /\ ret = [dco |-> Pending, gd |-> Pending, dg |-> Pending]

CallComputeDCOffset ==
    /\ args.fn = "DCO"
    /\ ret.dco = Pending
    /\ ret' = [ret EXCEPT !.dco = Ok(computeDCOffset(args.Kspace, args.Size))]
    /\ UNCHANGED <<scipyOnePoint, stackVars, configVars, args>>

CallGammaThenDCO ==
    /\ args.fn = "Order"
    /\ ret.gd = Pending
    /\ ret' = [ret EXCEPT !.gd =
                  applyStack(args.Kspace,
                             <<makeGammaTransform(2), makeDCO(args.Size)>>)]
    /\ UNCHANGED <<scipyOnePoint, stackVars, configVars, args>>

CallDCOThenGamma ==
    /\ args.fn = "Order"
    /\ ret.gd # Pending
    /\ ret.dg = Pending
    /\ ret' = [ret EXCEPT !.dg =
                  applyStack(args.Kspace,
                             <<makeDCO(args.Size), makeGammaTransform(2)>>)]
    /\ UNCHANGED <<scipyOnePoint, stackVars, configVars, args>>

NonlinearNext ==
    \/ CallComputeDCOffset
    \/ CallGammaThenDCO
    \/ CallDCOThenGamma

SpecNonlinear == NonlinearInit /\ [][NonlinearNext]_vars

\* C9 as stated: computeDCOffset of a constant array is the all-zero array of
\* the same shape, for every positive Size, also a Size that reaches or
\* exceeds the number of rows or columns.
C9_Original ==
    (args.fn = "DCO" /\ ret.dco # Pending /\ IsConstArr(args.Kspace))
    => ret.dco = Ok(Zeros(Rows(args.Kspace), Cols(args.Kspace)))

\* C4: the stack [gamma 2, DC offset] and the stack [DC offset, gamma 2] give
\* different arrays (some element differs, compared as numpy compares) for
\* every real data array that is not constant and whose DC-offset estimate is
\* not zero.
C4_OrderMatters ==
    (/\ args.fn = "Order"
     /\ ret.dg # Pending
     /\ ~IsConstArr(args.Kspace)
     /\ ~VEq(DCEstimate(args.Kspace, args.Size), I(0)))
    => /\ IsOk(ret.gd)
       /\ IsOk(ret.dg)
       /\ ~ArrEq(ret.gd.arr, ret.dg.arr)

\* C4 witness: both orders were applied to a 3 x 3 array that is not constant
\* and whose estimate is a non-zero number; the results are arrays of numbers.
C4_Witness ==
    /\ args.fn = "Order"
    /\ ret.dg # Pending
    /\ Shape(args.Kspace) = <<3, 3>>
    /\ ~IsConstArr(args.Kspace)
    /\ DCEstimate(args.Kspace, args.Size).k = "q"
    /\ DCEstimate(args.Kspace, args.Size) # I(0)
    /\ ret.gd.arr[1][1].k = "q"
    /\ ret.gd.arr # ret.dg.arr

(***************************************************************************)
(* SpecMask: mask(Image, Threshold), lines 1316-1320.                      *)
(***************************************************************************)
\* np.abs of an element
VAbs(v) == IF v.k = "q" /\ v.n < 0 THEN VNeg(v) ELSE v

\* u < v as numpy compares two elements: false when either is NaN
VLt(u, v) ==
    /\ u.k = "q"
    /\ v.k = "q"
    /\ u.n * v.d < v.n * u.d

\* line 1317: the elements selected by np.abs(imageMask) < Threshold
BelowThreshold(v, Threshold) == VLt(VAbs(v), Threshold)

mask(Image, Threshold) ==
    LET cleared == [i \in 1..Rows(Image) |-> [j \in 1..Cols(Image) |->
                       IF BelowThreshold(Image[i][j], Threshold)
                       THEN I(0) ELSE Image[i][j]]]
        set == [i \in 1..Rows(Image) |-> [j \in 1..Cols(Image) |->
                   IF VLt(I(0), VAbs(cleared[i][j]))
                   THEN I(1) ELSE cleared[i][j]]]
    IN  [i \in 1..Rows(Image) |-> [j \in 1..Cols(Image) |-> VAbs(set[i][j])]]

MaxMaskDim == 2

MaskValues == {I(-1), I(0), Q(1, 2)}

MaskThresholds == {I(0), Q(1, 2), I(1)}

MaskImages ==
    UNION {[1..r -> [1..c -> MaskValues]] : r \in 1..MaxMaskDim,
                                            c \in 1..MaxMaskDim}

MaskInit ==
    /\ StackIdle
    /\ ConfigIdle
    /\ scipyOnePoint = "raise"
    /\ args \in [fn : {"mask"}, Image : MaskImages, Threshold : MaskThresholds]
    /\ ret = Pending

CallMask ==
    /\ args.fn = "mask"
    /\ ret = Pending
    /\ ret' = Ok(mask(args.Image, args.Threshold))
    /\ UNCHANGED <<scipyOnePoint, stackVars, configVars, args>>

MaskNext == CallMask

SpecMask == MaskInit /\ [][MaskNext]_vars

\* C11 as stated: mask returns an array of the shape of Image that is 1
\* exactly where the absolute value of the element is strictly greater than
\* Threshold and 0 everywhere else, also where it equals Threshold.
C11_Original ==
    (args.fn = "mask" /\ ret # Pending)
    => /\ Shape(ret.arr) = Shape(args.Image)
       /\ \A i \in 1..Rows(args.Image) : \A j \in 1..Cols(args.Image) :
             ret.arr[i][j] =
                 IF VLt(args.Threshold, VAbs(args.Image[i][j]))
                 THEN I(1) ELSE I(0)

(***************************************************************************)
(* Further statements about applyStack (specification Spec).               *)
(***************************************************************************)
\* C12: the transform of makeGammaTransform(1) is the identity: every call of
\* it returns an array holding in every place the number its input holds
\* there (a NaN staying a NaN), and applyStack of the stack made of that one
\* filter returns an array equal to Data.
C12_GammaOneIdentity ==
    /\ \A i \in 1..Len(outputs) :
          Stack0[applied[i]] = makeGammaTransform(1) => outputs[i] = inputs[i]
    /\ (Returned /\ Stack0 = <<makeGammaTransform(1)>>)
          => heap[result] = Data0

\* C12 witness: the stack [gamma 1] has returned, its one call having been
\* made on data with a negative, a zero and a positive element.
C12_Witness ==
    /\ Returned
    /\ Stack0 = <<makeGammaTransform(1)>>
    /\ applied = <<1>>
    /\ Data0 = <<<<I(-2), I(0)>>, <<I(3), I(3)>>>>
    /\ outputs[1] = Data0

(***************************************************************************)
(* SpecFilter: one GFilter object.  A builder is called (args holds the    *)
(* call), an outside holder of the object may replace one geometry field   *)
(* of its descriptor (filt.params[key] = v; params is a plain dictionary,  *)
(* lines 1409-1411), and the transform is applied to an array.             *)
(*   ret.phase   "new", "built", "applied"                                 *)
(*   ret.filt    the object: params and function                           *)
(*   ret.made    the descriptor as the builder left it                     *)
(*   ret.edited  the key replaced since ("" for none)                      *)
(*   ret.x, ret.out   the array the transform was applied to, the outcome  *)
(***************************************************************************)
MaxGeom == 3

FilterDims == {<<2, 2>>, <<2, 3>>}

FilterWindows == {Boxcar, Triang, WinTup("kaiser", 0)}

NotchCenters == {TupC(c0, c1) : c0 \in 0..1, c1 \in 0..1}

\* the call args describes
Make(a) ==
    CASE a.maker = "makeLPF" ->
            makeLPF(a.Window, a.Dim, a.Diameter, a.Outer, a.Cont)
      [] a.maker = "makeHPF" ->
            makeHPF(a.Window, a.Dim, a.Diameter, a.Outer, a.Cont)
      [] a.maker = "makeBPF" ->
            makeBPF(a.Window, a.Dim, a.Diameter, a.Width, a.Cont)
      [] a.maker = "makeBSF" ->
            makeBSF(a.Window, a.Dim, a.Diameter, a.Width, a.Cont)
      [] a.maker = "makeVBPF" -> makeVBPF(a.Window, a.Dim, a.Center, a.Width)
      [] a.maker = "makeVBSF" -> makeVBSF(a.Window, a.Dim, a.Center, a.Width)
      [] a.maker = "makeHBPF" -> makeHBPF(a.Window, a.Dim, a.Center, a.Width)
      [] a.maker = "makeHBSF" -> makeHBSF(a.Window, a.Dim, a.Center, a.Width)
      [] a.maker = "makeNF" -> makeNF(a.Window, a.Dim, a.Center, a.Width)
      [] a.maker = "makeDCO" -> makeDCO(a.Size)
      [] a.maker = "makeLogTransform" -> makeLogTransform
      [] a.maker = "makeGammaTransform" -> makeGammaTransform(a.Gamma)

FilterInit ==
    /\ StackIdle
    /\ ConfigIdle
    /\ scipyOnePoint = "interpolate"
    /\ ret = [phase |-> "new", filt |-> GFilter(<<>>), made |-> <<>>,
              edited |-> "", x |-> <<>>, out |-> Pending]
    /\ \/ \E m \in {"makeLPF", "makeHPF"}, w \in FilterWindows,
             d \in FilterDims, dia \in 0..MaxGeom, o \in BOOLEAN, c \in BOOLEAN :
             args = [maker |-> m, Window |-> w, Dim |-> d, Diameter |-> dia,
                     Outer |-> o, Cont |-> c]
       \/ \E m \in {"makeBPF", "makeBSF"}, w \in FilterWindows,
             d \in FilterDims, dia \in 0..MaxGeom, wd \in 1..MaxGeom,
             c \in BOOLEAN :
             args = [maker |-> m, Window |-> w, Dim |-> d, Diameter |-> dia,
                     Width |-> wd, Cont |-> c]
       \/ \E m \in {"makeVBPF", "makeVBSF", "makeHBPF", "makeHBSF"},
             w \in FilterWindows, d \in FilterDims, ctr \in 0..(MaxGeom - 1),
             wd \in 1..MaxGeom :
             args = [maker |-> m, Window |-> w, Dim |-> d, Center |-> ctr,
                     Width |-> wd]
       \/ \E w \in FilterWindows, d \in FilterDims, ctr \in NotchCenters,
             wd \in 1..MaxGeom :
             args = [maker |-> "makeNF", Window |-> w, Dim |-> d,
                     Center |-> ctr, Width |-> wd]
       \/ \E sz \in 1..MaxGeom : args = [maker |-> "makeDCO", Size |-> sz]
       \/ args = [maker |-> "makeLogTransform"]
       \/ \E g \in 1..MaxGeom : args = [maker |-> "makeGammaTransform", Gamma |-> g]

\* the builder returns the object
CallMake ==
    /\ "maker" \in DOMAIN args
    /\ ret.phase = "new"
    /\ ret' = [ret EXCEPT !.phase = "built", !.filt = Make(args),
                          !.made = Make(args).params]
    /\ UNCHANGED <<scipyOnePoint, stackVars, configVars, args>>

GeometryKeys == {"Dim", "Diameter", "Width", "Center", "Outer", "Contour"}

\* the values a geometry field of the descriptor p may be replaced by
EditValues(p, key) ==
    CASE key = "Dim" -> FilterDims
      [] key = "Diameter" -> 0..MaxGeom
      [] key = "Width" -> 1..MaxGeom
      [] key = "Center" ->
            IF p.Type = "Notch" THEN NotchCenters ELSE 0..(MaxGeom - 1)
      [] key \in {"Outer", "Contour"} -> BOOLEAN

\* filt.params[key] = v by a holder of the object: the dictionary changes,
\* the attribute function is left as it is
EditDescriptor ==
    /\ "maker" \in DOMAIN args
    /\ ret.phase = "built"
    /\ ret.edited = ""
    /\ \E key \in (DOMAIN ret.filt.params) \cap GeometryKeys :
          \E v \in EditValues(ret.filt.params, key) :
             /\ v # ret.filt.params[key]
             /\ ret' = [ret EXCEPT !.filt.params[key] = v, !.edited = key]
    /\ UNCHANGED <<scipyOnePoint, stackVars, configVars, args>>

\* the array the transform is tried on: of the shape the filter was built for
FilterInput ==
    IF "Dim" \in DOMAIN args THEN Tagged(args.Dim[1], args.Dim[2])
    ELSE Tagged(2, 2)

\* filt.function(x)
ApplyTransform ==
    /\ "maker" \in DOMAIN args
    /\ ret.phase = "built"
    /\ ret' = [ret EXCEPT !.phase = "applied", !.x = FilterInput,
                          !.out = Call(ret.filt.function, FilterInput)]
    /\ UNCHANGED <<scipyOnePoint, stackVars, configVars, args>>

FilterNext ==
    \/ CallMake
    \/ EditDescriptor
    \/ ApplyTransform

SpecFilter == FilterInit /\ [][FilterNext]_vars

\* C13 as stated: the descriptor of every filter object a builder returns
\* contains the three keys Type, Linear and Name.
C13_Original ==
    ret.phase # "new" => {"Type", "Linear", "Name"} \subseteq DOMAIN ret.made

FilterTypes ==
    {"Low Pass", "High Pass", "Band Pass", "Band Stop", "Vertical Band Pass",
     "Vertical Band Stop", "Horizontal Band Pass", "Horizontal Band Stop",
     "Notch", "DC Offset", "Log Transform", "Gamma Transform"}

MaskTypes == FilterTypes \ {"DC Offset", "Log Transform", "Gamma Transform"}

FieldKeys == GeometryKeys \cup {"Size", "Gamma"}

WindowOf(p) ==
    IF "Shape" \in DOMAIN p THEN WinTup(p.Name, p.Shape) ELSE WinStr(p.Name)

\* the mask the build* function of the descriptor's type produces from the
\* parameter values the descriptor p holds
MaskOf(p) ==
    CASE p.Type = "Low Pass" ->
            build2DLP(WindowOf(p), p.Dim, p.Diameter, p.Outer, p.Contour)
      [] p.Type = "High Pass" ->
            build2DHP(WindowOf(p), p.Dim, p.Diameter, p.Outer, p.Contour)
      [] p.Type = "Band Pass" ->
            build2DBP(WindowOf(p), p.Dim, p.Diameter, p.Width, p.Contour)
      [] p.Type = "Band Stop" ->
            build2DBS(WindowOf(p), p.Dim, p.Diameter, p.Width, p.Contour)
      [] p.Type = "Vertical Band Pass" ->
            build2DVBP(WindowOf(p), p.Dim, p.Center, p.Width)
      [] p.Type = "Vertical Band Stop" ->
            build2DVBS(WindowOf(p), p.Dim, p.Center, p.Width)
      [] p.Type = "Horizontal Band Pass" ->
            build2DHBP(WindowOf(p), p.Dim, p.Center, p.Width)
      [] p.Type = "Horizontal Band Stop" ->
            build2DHBS(WindowOf(p), p.Dim, p.Center, p.Width)
      [] p.Type = "Notch" -> buildNF(WindowOf(p), p.Dim, p.Center, p.Width)

\* C15 as stated: whenever the transform of a linear filter object is
\* applied, right after construction or after a geometry field of its
\* descriptor was replaced, it yields x times the mask built from the
\* parameter values the descriptor holds at that moment.
C15_Original ==
    (ret.phase = "applied" /\ ret.filt.params.Linear)
    => ret.out = TimesMask(ret.x, MaskOf(ret.filt.params))

\* C15: the transform of a linear filter object yields x times the mask built
\* from the parameter values the builder was called with, which are those of
\* the descriptor as the builder left it; a later replacement of a geometry
\* field of the descriptor leaves the transform as it was.
C15_TransformFromArguments ==
    (ret.phase = "applied" /\ ret.made.Linear)
    => /\ ret.out = TimesMask(ret.x, MaskOf(ret.made))
       /\ ret.edited = "" => ret.filt.params = ret.made

\* C15 witness: the Width of a vertical band-pass descriptor was replaced and
\* the transform, applied afterwards, gave an array that is not x times the
\* mask of the descriptor's present values.
C15_Witness ==
    /\ ret.phase = "applied"
    /\ ret.made.Type = "Vertical Band Pass"
    /\ ret.edited = "Width"
    /\ IsOk(ret.out)
    /\ IsOk(MaskOf(ret.filt.params))
    /\ ret.out # TimesMask(ret.x, MaskOf(ret.filt.params))

\* every linear filter of the stack was built with Dim = the shape of Data
DimsMatchData ==
    \A i \in 1..Len(Stack0) :
        Stack0[i].params.Linear => Stack0[i].params.Dim = Shape(Data0)

\* C16: when every linear filter of the stack was built with Dim equal to the
\* shape S of Data (non-linear filters unrestricted), every array a transform
\* returns during the fold, the array held in filtered and the array
\* applyStack returns have shape exactly S.
C16_ShapePreserved ==
    DimsMatchData =>
        /\ \A i \in 1..Len(outputs) : Shape(outputs[i]) = Shape(Data0)
        /\ filtered # 0 => Shape(heap[filtered]) = Shape(Data0)
        /\ Returned => Shape(heap[result]) = Shape(Data0)

\* C16 witness: 1 x 2 data went through a low-pass mask built for Dim (1, 2)
\* with contour resampling and then through the DC offset filter, and the
\* array returned is 1 x 2.
C16_Witness ==
    /\ Returned
    /\ Shape(Data0) = <<1, 2>>
    /\ Stack0 = <<makeLPF(Boxcar, <<1, 2>>, 0, TRUE, TRUE), makeDCO(1)>>
    /\ Len(outputs) = 2
    /\ Shape(heap[result]) = <<1, 2>>

(***************************************************************************)
(* Further statements about the builders (specification SpecBuild).        *)
(***************************************************************************)
MaxOfDim == IF args.Dim[1] > args.Dim[2] THEN args.Dim[1] ELSE args.Dim[2]

\* C17: build2DLP and build2DBP called with Diameter = 0 give exactly what
\* they give when called with Diameter = max(Dim) and the other parameters
\* unchanged (the same array, or the same failure), for every Dim, both
\* constructions and both contour policies.
C17_ZeroMeansMaxDim ==
    /\ (args.fn = "LP" /\ ret.pass # Pending /\ args.Diameter = 0)
          => ret.pass = build2DLP(args.Window, args.Dim, MaxOfDim,
                                  args.Outer, args.Cont)
    /\ (args.fn = "BP" /\ ret.pass # Pending /\ args.Diameter = 0)
          => ret.pass = build2DBP(args.Window, args.Dim, MaxOfDim,
                                  args.Width, args.Cont)

\* C17 witness: the outer boxcar low pass for Dim = (2, 3) and Diameter = 0 is
\* all ones, as for Diameter = 3; for Diameter = 2 its last column would be 0.
C17_Witness ==
    /\ args.fn = "LP"
    /\ args.Window = Boxcar /\ args.Outer /\ ~args.Cont
    /\ args.Dim = <<2, 3>> /\ args.Diameter = 0
    /\ ret.pass = Ok(Ones(2, 3))
    /\ build2DLP(Boxcar, <<2, 3>>, 2, TRUE, FALSE) # Ok(Ones(2, 3))

(***************************************************************************)
(* Further statements about resizeToMatch (specification SpecResize).      *)
(* Indices are counted from 0 as in the code.  On one axis, with n the     *)
(* current length and d = target length - n, the output index o takes its  *)
(* element from the input index AxisSource(n, d, s, o), or is a padding    *)
(* zero when that is -1.                                                   *)
(***************************************************************************)
\* padded axis: input index i is found at (i + s) mod (n + d)
PadSource(n, d, s, o) ==
    LET i == (o - s) % (n + d) IN IF i < n THEN i ELSE -1

\* cropped axis: floor(|d|/2) elements are removed at the start
CropSource(d, o) == o + ((-d) \div 2)

AxisSource(n, d, s, o) ==
    IF d > 0 THEN PadSource(n, d, s, o)
    ELSE IF d < 0 THEN CropSource(d, o)
    ELSE o

\* the shift on a padded axis: Center[axis] if a Center is given, else floor(d/2)
ShiftOf(axis, d) ==
    IF args.Center.t = "tuple" THEN args.Center.v[axis] ELSE d \div 2

\* the array the axis rules work on: Window, resampled first if Cont is set
Resampled == resizeCont(args.Window, args.Size, args.Cont)

dZeroOf(W) == args.Size[1] - Rows(W)

dOneOf(W) == args.Size[2] - Cols(W)

\* the result has shape Size and every element is the one the two axis rules
\* name, or 0 where either rule names a padding place
FollowsAxisRules(W) ==
    /\ IsOk(ret)
    /\ Shape(ret.arr) = args.Size
    /\ \A o0 \in 0..(args.Size[1] - 1) : \A o1 \in 0..(args.Size[2] - 1) :
          LET i0 == AxisSource(Rows(W), dZeroOf(W),
                               ShiftOf(1, dZeroOf(W)), o0)
              i1 == AxisSource(Cols(W), dOneOf(W),
                               ShiftOf(2, dOneOf(W)), o1)
          IN  ret.arr[o0 + 1][o1 + 1] =
                  IF i0 = -1 \/ i1 = -1 THEN I(0) ELSE W[i0 + 1][i1 + 1]

C19_CropRule ==
    (/\ args.fn = "resizeToMatch"
     /\ ret # Pending
     /\ IsOk(Resampled)
     /\ (dZeroOf(Resampled.arr) < 0 \/ dOneOf(Resampled.arr) < 0)
     /\ args.Center.t = "int"
           => (dZeroOf(Resampled.arr) <= 0 /\ dOneOf(Resampled.arr) <= 0))
    => FollowsAxisRules(Resampled.arr)

\* C19 witness: a 3 x 3 window cropped to 2 x 1 under Center = (2, 1): of the
\* rows the last one goes (|d| = 1), of the columns the first and the last.
C19_Witness ==
    /\ args.fn = "resizeToMatch"
    /\ ~args.Cont
    /\ args.Window = Tagged(3, 3)
    /\ args.Size = <<2, 1>>
    /\ args.Center = TupC(2, 1)
    /\ ret = Ok(<<<<I(12)>>, <<I(22)>>>>)

\* the line a stripe centred on Center holds at index o (counted from 0): the
\* Width profile values on the columns Center - floor(Width/2) and following
CenteredLine(o) ==
    LET start == args.Center - (args.Width \div 2)
    IN  IF start <= o /\ o < start + args.Width
        THEN get_window(args.Window, args.Width)[o - start + 1]
        ELSE I(0)

\* C20 as stated: for every Dim, every (odd) Width and every Center for which
\* the Width places centred on Center lie inside the grid, build2DVBP returns
\* an array of shape Dim whose every row is the same line, holding the Width
\* profile values on the Width consecutive columns centred on column Center
\* and 0 elsewhere; build2DHBP returns the same for rows.
C20_Original ==
    (/\ args.fn \in {"VBP", "HBP"}
     /\ ret.pass # Pending
     /\ args.Width % 2 = 1
     /\ args.Center - (args.Width \div 2) >= 0
     /\ args.Center - (args.Width \div 2) + args.Width
           <= (IF args.fn = "VBP" THEN args.Dim[2] ELSE args.Dim[1]))
    => /\ IsOk(ret.pass)
       /\ Shape(ret.pass.arr) = args.Dim
       /\ \A i \in 1..args.Dim[1] : \A j \in 1..args.Dim[2] :
             ret.pass.arr[i][j] =
                 IF args.fn = "VBP" THEN CenteredLine(j - 1)
                 ELSE CenteredLine(i - 1)

\* C21 as stated: for every Center with 0 <= Center < Dim[1] and every
\* positive Width, when part of the Width-long stripe around Center would
\* fall outside the grid, build2DVBP still returns an array of shape Dim: the
\* profile values that would lie outside are dropped, the others sit at the
\* grid edge, and no profile value appears at the opposite edge.
C21_Original ==
    (/\ args.fn = "VBP"
     /\ ret.pass # Pending
     /\ args.Center < args.Dim[2]
     /\ \/ args.Center - (args.Width \div 2) < 0
        \/ args.Center - (args.Width \div 2) + args.Width > args.Dim[2])
    => /\ IsOk(ret.pass)
       /\ Shape(ret.pass.arr) = args.Dim
       /\ \A i \in 1..args.Dim[1] : \A j \in 1..args.Dim[2] :
             ret.pass.arr[i][j] = CenteredLine(j - 1)

(***************************************************************************)
(* Further statements about computeDCOffset (specification SpecNonlinear). *)
(***************************************************************************)
\* the average of the means of the four Size x Size blocks at the corners of
\* Kspace: the first or the last Size rows with the first or the last Size
\* columns
CornerEstimate(Kspace, Size) ==
    LET r == Rows(Kspace)
        c == Cols(Kspace)
        top == SliceRows(Kspace, 0, Size)
        bottom == SliceRows(Kspace, -Size, r)
    IN  VMul(VAdd(VAdd(Mean(SliceCols(top, 0, Size)),
                       Mean(SliceCols(bottom, 0, Size))),
                  VAdd(Mean(SliceCols(bottom, -Size, c)),
                       Mean(SliceCols(top, -Size, c)))),
             Q(1, 4))

\* C22 as stated: computeDCOffset subtracts from every element the average
\* of the means of the four Size-by-Size corner blocks of Kspace; elements
\* outside those blocks do not influence what is subtracted.
C22_Original ==
    (args.fn = "DCO" /\ ret.dco # Pending)
    => /\ IsOk(ret.dco)
       /\ Shape(ret.dco.arr) = Shape(args.Kspace)
       /\ \A i \in 1..Rows(args.Kspace) : \A j \in 1..Cols(args.Kspace) :
             ret.dco.arr[i][j] =
                 VSub(args.Kspace[i][j],
                      CornerEstimate(args.Kspace, args.Size))

(***************************************************************************)
(* The rotational low-pass square (specification SpecBuild).  With Dim =   *)
(* (D, D) the resize that ends build2DLP changes nothing, so the square is *)
(* what the builder returns.                                               *)
(***************************************************************************)
RotationalSquare ==
    /\ args.fn = "LP" /\ ~args.Outer /\ ret.pass # Pending
    /\ args.Dim[1] = args.Dim[2]
    /\ args.Diameter \in {0, args.Dim[1]}

\* sqrt(s2)/2: the distance of a pixel whose doubled offsets from the centre
\* have the squares summing to s2
DistanceOf(s2) ==
    LET f == IF s2 = 0 THEN 1 ELSE SquarePart(s2)
    IN  IF s2 = 0 THEN I(0)
        ELSE IF f * f = s2 THEN Q(f, 2)
        ELSE X(<<0, 1>>, RNorm(f, 2), <<"sqrt", s2 \div (f * f)>>)

\* v is the profile w, sampled at the D points -(D-1)/2 .. (D-1)/2 one unit
\* apart, linearly interpolated at the distance sqrt(s2)/2
InterpolatedAt(v, w, D, s2) ==
    \E lo \in 1..(D - 1) :
        /\ Grid2(D, lo + 1) >= 0
        /\ (Grid2(D, lo) <= 0 \/ Grid2(D, lo) * Grid2(D, lo) <= s2)
        /\ s2 <= Grid2(D, lo + 1) * Grid2(D, lo + 1)
        /\ v = VAdd(w[lo], VMul(VSub(w[lo + 1], w[lo]),
                                VSub(DistanceOf(s2), Q(Grid2(D, lo), 2))))

\* C23: in the Diameter x Diameter square of the rotational low-pass filter
\* a pixel farther than (Diameter-1)/2 from the centre is 0 and every other
\* pixel holds the profile linearly interpolated at its distance; the four
\* corners are 0 for Diameter >= 2; with boxcar the square is 1 exactly on
\* the disc of radius (Diameter-1)/2.
C23_RotationalDisc ==
    (RotationalSquare /\ args.Dim[1] >= 2)
    => LET D == args.Dim[1]
           w == get_window(args.Window, D)
       IN  /\ IsOk(ret.pass)
           /\ Shape(ret.pass.arr) = <<D, D>>
           /\ \A r \in 1..D : \A c \in 1..D :
                 LET s2 == Dist2Sq(D, r, c)
                     v == ret.pass.arr[r][c]
                 IN  /\ s2 > (D - 1) * (D - 1) => v = I(0)
                     /\ s2 <= (D - 1) * (D - 1) => InterpolatedAt(v, w, D, s2)
                     /\ args.Window = Boxcar
                        => v = (IF s2 <= (D - 1) * (D - 1) THEN I(1) ELSE I(0))
           /\ \A r \in {1, D} : \A c \in {1, D} : ret.pass.arr[r][c] = I(0)

\* a 5 x 5 triangular square: 0 at a corner, the last sample 1/2 on the rim
\* of the disc, and an interpolated value at the distance sqrt(2)
C23_Witness ==
    /\ RotationalSquare /\ args.Dim = <<5, 5>> /\ args.Window = Triang
    /\ IsOk(ret.pass)
    /\ ret.pass.arr[1][1] = I(0)
    /\ ret.pass.arr[1][3] = Q(1, 2)
    /\ ret.pass.arr[2][2].k = "x"

(***************************************************************************)
(* The band-pass square (specification SpecBuild).                         *)
(***************************************************************************)
\* C24 as stated: build2DBP returns an array for every positive Width and
\* Diameter, and for Width <= (Diameter-1)/2 the square is 0 within
\* (Diameter-1)/2 - Width of the centre and 0 beyond (Diameter-1)/2.
C24_Original ==
    (args.fn = "BP" /\ ret.pass # Pending
        /\ DefaultDiameter(args.Dim, args.Diameter) >= 2)
    => /\ IsOk(ret.pass)
       /\ (/\ args.Dim[1] = args.Dim[2]
           /\ args.Diameter \in {0, args.Dim[1]}
           /\ 2 * args.Width <= args.Dim[1] - 1)
          => LET D == args.Dim[1]
             IN  \A r \in 1..D : \A c \in 1..D :
                    (\/ Dist2Sq(D, r, c) > (D - 1) * (D - 1)
                     \/ Dist2Sq(D, r, c)
                           <= (D - 1 - 2 * args.Width) * (D - 1 - 2 * args.Width))
                    => ret.pass.arr[r][c] = I(0)

(***************************************************************************)
(* Padding and cropping back (specification SpecResize).                   *)
(***************************************************************************)
\* the call pads on both axes (or leaves an axis alone), with the default
\* centring and without resampling
PadsOnly ==
    /\ args.fn = "resizeToMatch" /\ ret # Pending
    /\ ~args.Cont /\ args.Center = NoneC
    /\ args.Size[1] >= Rows(args.Window)
    /\ args.Size[2] >= Cols(args.Window)

\* C27: with Cont false and no Center, resizing w of shape (a, b) to a
\* target (A, B) with A >= a and B >= b and resizing the result back to
\* (a, b) gives w again, element by element, whatever the parities of A - a
\* and B - b.
C27_PadCropRoundTrip ==
    PadsOnly
    => /\ IsOk(ret)
       /\ Shape(ret.arr) = args.Size
       /\ resizeToMatch(ret.arr, Shape(args.Window), FALSE, NoneC)
              = Ok(args.Window)

\* a 2 x 2 array padded to 4 x 3 (an even and an odd difference) and back
C27_Witness ==
    /\ PadsOnly
    /\ args.Window = Tagged(2, 2) /\ args.Size = <<4, 3>>
    /\ IsOk(ret)
    /\ ret.arr[2] = <<I(11), I(12), I(0)>>
    /\ resizeToMatch(ret.arr, <<2, 2>>, FALSE, NoneC) = Ok(Tagged(2, 2))

(***************************************************************************)
(* Applying the DC-offset correction twice (specification SpecNonlinear).  *)
(***************************************************************************)
\* none of the four blocks computeDCOffset averages is empty
BlocksNonEmpty(Kspace, Size) ==
    Size >= 1 /\ Size < Rows(Kspace) /\ Size < Cols(Kspace)

CommuteDims == {<<2, 3>>, <<3, 2>>, <<3, 3>>}

\* filter objects of every linear builder for the shape Dim; the last two
\* are a builder call that fails and a resampled mask
LinearFilters(Dim) ==
    <<makeLPF(Triang, Dim, 0, FALSE, FALSE),
      makeLPF(Triang, Dim, 2, TRUE, FALSE),
      makeHPF(Triang, Dim, 0, TRUE, FALSE),
      makeBPF(Triang, Dim, 0, 1, FALSE),
      makeBSF(Boxcar, Dim, 0, 1, FALSE),
      makeVBPF(Triang, Dim, 1, 2),
      makeVBSF(Triang, Dim, 1, 1),
      makeHBPF(Triang, Dim, 1, 2),
      makeHBSF(Boxcar, Dim, 1, 1),
      makeNF(Boxcar, Dim, TupC(1, 1), 1),
      makeVBPF(Boxcar, Dim, 0, 3),
      makeLPF(Boxcar, Dim, 0, TRUE, TRUE)>>

\* the filters before the two linear ones
CommutePrefix(pre) ==
    IF pre = "gamma" THEN <<makeGammaTransform(2)>> ELSE <<>>

CommuteInit ==
    /\ StackIdle
    /\ ConfigIdle
    /\ scipyOnePoint = "raise"
    /\ \E Dim \in CommuteDims :
          \E f \in DOMAIN LinearFilters(Dim), g \in DOMAIN LinearFilters(Dim) :
             \E pre \in {"none", "gamma"} :
                args = [fn |-> "Commute", Dim |-> Dim, F |-> f, G |-> g,
                        pre |-> pre, Data |-> Tagged(Dim[1], Dim[2])]
    /\ ret = [fg |-> Pending, gf |-> Pending]

CallStackFG ==
    /\ args.fn = "Commute"
    /\ ret.fg = Pending
    /\ ret' = [ret EXCEPT !.fg =
                  applyStack(args.Data,
                             CommutePrefix(args.pre)
                                 \o <<LinearFilters(args.Dim)[args.F],
                                      LinearFilters(args.Dim)[args.G]>>)]
    /\ UNCHANGED <<scipyOnePoint, stackVars, configVars, args>>

CallStackGF ==
    /\ args.fn = "Commute"
    /\ ret.fg # Pending
    /\ ret.gf = Pending
    /\ ret' = [ret EXCEPT !.gf =
                  applyStack(args.Data,
                             CommutePrefix(args.pre)
                                 \o <<LinearFilters(args.Dim)[args.G],
                                      LinearFilters(args.Dim)[args.F]>>)]
    /\ UNCHANGED <<scipyOnePoint, stackVars, configVars, args>>

CommuteNext ==
    \/ CallStackFG
    \/ CallStackGF

SpecCommute == CommuteInit /\ [][CommuteNext]_vars

MaxConfigStack == 2

\* np.shape(self.data), and the data
ConfigDim == <<2, 3>>

ConfigData == Tagged(ConfigDim[1], ConfigDim[2])

Radios ==
    {"lowpass", "highpass", "cbandstop", "vbandstop", "hbandstop", "notch",
     "none"}

\* the radio buttons the inputs are drawn from
ConfigRadios == {"lowpass", "cbandstop", "vbandstop", "none"}

ConfigWidgets ==
    [window : {"DC Offset", "boxcar"}, radio : ConfigRadios, diameter : {2},
     width : {1}, hcenter : {0}, vcenter : {0}, outer : {TRUE},
     percent : {FALSE}]

\* the widgets when the constructor has filled the combo box (its first
\* item is current) and set diameterSB to np.max(Dim)
InitialWidgets ==
    {[w EXCEPT !.window = "barthann",
               !.diameter = IF ConfigDim[1] > ConfigDim[2] THEN ConfigDim[1]
                            ELSE ConfigDim[2]] : w \in ConfigWidgets}

\* A list holds objects.  The field obj of a filter says which object it
\* is: its place in the main window's list when _filtConfigure was called,
\* or 0 for an object made since then.
NewObject(f) == f @@ [obj |-> 0]

Known(st) == [i \in 1..Len(st) |-> [st[i] EXCEPT !.obj = i]]

\* the keyword arguments makeLPF and makeBSF take (filters.py 89 and 504)
makeLPFKeywords == {"Window", "Dim", "Diameter", "Outer", "Cont"}

makeBSFKeywords == {"Window", "Dim", "Diameter", "Width", "Cont"}

\* seq[index] of Python for an index that may be negative
PyAt(n, index) == IF index < 0 THEN n + index + 1 ELSE index + 1

\* FilterConfig._updateFilter on the list content st with the current row
\* row and the widgets w: the error raised ("none" for none) and the content
\* of the list afterwards
updateFilter(st, row, w) ==
    IF Len(st) = 0 THEN [err |-> "none", stack |-> st]
    ELSE IF w.window # "DC Offset" /\ w.radio = "cbandstop"
              /\ ~({"Window", "Dim", "Radius", "Diameter", "Cont"}
                      \subseteq makeBSFKeywords)
         THEN [err |-> "TypeError", stack |-> st]
    ELSE IF w.window # "DC Offset" /\ w.radio = "none"
         THEN [err |-> "UnboundLocalError", stack |-> st]
    ELSE LET window == WinStr(w.window)
             workingFilter ==
                 CASE w.window = "DC Offset" -> makeDCO(10)
                   [] w.radio = "lowpass" ->
                        makeLPF(window, ConfigDim, w.diameter, w.outer, w.percent)
                   [] w.radio = "highpass" ->
                        makeHPF(window, ConfigDim, w.diameter, w.outer, w.percent)
                   [] w.radio = "cbandstop" ->
                        makeBSF(window, ConfigDim, w.diameter, w.width, w.percent)
                   [] w.radio = "vbandstop" ->
                        makeVBSF(window, ConfigDim, w.hcenter, w.width)
                   [] w.radio = "hbandstop" ->
                        makeHBSF(window, ConfigDim, w.vcenter, w.width)
                   [] OTHER ->
                        makeNF(window, ConfigDim, TupC(w.vcenter, w.hcenter),
                               w.width)
         IN  \* shown is what imshow is given, computed once (the singleton
             \* binds it)
             CHOOSE r \in
                {IF ~IsOk(shown) THEN [err |-> shown.err, stack |-> st]
                 ELSE [err |-> "none",
                       stack |-> [st EXCEPT ![PyAt(Len(st), row)] =
                                     NewObject(workingFilter)]] :
                    shown \in {Call(workingFilter.function,
                                    Ones(ConfigDim[1], ConfigDim[2]))}} : TRUE

Set(field, value) == [set |-> field, to |-> value]

CallUpdate == [set |-> "call"]

\* the statements of _loadFilter for a filter with the descriptor par, as
\* far as they set a widget or call _updateFilter; for the types Low Pass,
\* High Pass and Band Stop up to the statement that reads params['Radius']
LoadSteps(par) ==
    <<Set("window", par.Name), CallUpdate>> \o
    CASE par.Type = "Low Pass" -> <<Set("radio", "lowpass")>>
      [] par.Type = "High Pass" -> <<Set("radio", "highpass")>>
      [] par.Type = "Band Stop" -> <<Set("radio", "cbandstop")>>
      [] par.Type = "Vertical Band Stop" ->
            <<Set("radio", "vbandstop"), Set("diameter", par.Width),
              Set("hcenter", par.Center), CallUpdate>>
      [] par.Type = "Horizontal Band Stop" ->
            <<Set("radio", "hbandstop"), Set("width", par.Width),
              Set("vcenter", par.Center), CallUpdate>>
      [] par.Type = "Notch" ->
            <<Set("radio", "notch"), Set("width", par.Width),
              Set("hcenter", par.Center.v[1]),
              Set("vcenter", par.Center.v[2]), CallUpdate>>
      [] OTHER -> <<>>

\* one statement of _loadFilter.  Setting a widget to a new value makes its
\* signal call _updateFilter, and PyQt prints an exception raised in the
\* slot and goes on; an exception of _updateFilter called by the handler
\* itself ends the handler
LoadStep(s, row, step) ==
    IF ~s.ok THEN s
    ELSE LET w == IF step.set = "call" THEN s.w
                  ELSE [s.w EXCEPT ![step.set] = step.to]
         IN  IF step.set # "call" /\ w = s.w THEN s
             ELSE CHOOSE t \in
                     {IF r.err # "none" /\ step.set = "call"
                      THEN [s EXCEPT !.ok = FALSE]
                      ELSE [ok |-> TRUE, stack |-> r.stack, w |-> w] :
                          r \in {updateFilter(s.stack, row, w)}} : TRUE

\* the statements from the i-th on (each state is computed once: the
\* singleton binds it)
RECURSIVE LoadFrom(_, _, _, _)
LoadFrom(s, row, steps, i) ==
    IF i > Len(steps) THEN s
    ELSE CHOOSE r \in {LoadFrom(t, row, steps, i + 1) :
                          t \in {LoadStep(s, row, steps[i])}} : TRUE

\* FilterConfig._loadFilter(self.filterStack[row]) with the widgets w0: ok
\* is false when the handler raised
loadFilter(st, row, w0) ==
    LET par == st[PyAt(Len(st), row)].params
        s0 == [ok |-> TRUE, stack |-> st, w |-> w0]
    IN  IF "Name" \notin DOMAIN par THEN [s0 EXCEPT !.ok = FALSE]  \* KeyError
        ELSE CHOOSE t \in
                {IF par.Type \in {"Low Pass", "High Pass", "Band Stop"}
                 THEN [r EXCEPT !.ok = FALSE]                     \* KeyError
                 ELSE r : r \in {LoadFrom(s0, row, LoadSteps(par), 1)}} : TRUE

\* self.datafilt after updateAll: an exception leaves the old value
updateAll(st) ==
    LET o == applyStack(ConfigData, st) IN IF IsOk(o) THEN o ELSE datafilt

\* mr_magic.py 124-152: _openFID has read a file n times, and each time put
\* a new makeDCO(Size=10) at the head of filterStack and called updateAll
ConfigInit ==
    /\ StackIdle
    /\ scipyOnePoint = "raise"
    /\ args = IdleCall
    /\ ret = IdleCall
    /\ \E n \in 1..MaxConfigStack :
          LET st == Known([i \in 1..n |-> NewObject(makeDCO(10))])
          IN  /\ lists = <<st>>
              /\ before = st
              /\ datafilt = applyStack(ConfigData, st)
    /\ mainStack = 1
    /\ dlgStack = 0
    /\ currentRow = -1
    /\ dialog = "none"
    /\ lastOp = "none"

\* mr_magic.py 155-158 with FilterConfig.__init__: the dialog is built on
\* the main window's list and shown (exec_ is modal), unless its
\* constructor raises
filtConfigure ==
    /\ dialog # "open"
    /\ \E w0 \in InitialWidgets :
          LET st == Known(lists[mainStack])
              row == Len(st) - 1
              r == IF Len(st) = 0 THEN [ok |-> TRUE, stack |-> st, w |-> w0]
                   ELSE loadFilter(st, row, w0)
          IN  /\ lists' = [lists EXCEPT ![mainStack] = r.stack]
              /\ dlgStack' = IF r.ok THEN mainStack ELSE dlgStack
              /\ currentRow' = row
              /\ dialog' = IF r.ok THEN "open" ELSE "failed"
              /\ before' = st
    /\ lastOp' = "filtConfigure"
    /\ UNCHANGED <<scipyOnePoint, stackVars, args, ret, mainStack, datafilt>>

\* a widget of the open dialog changes and its signal calls _updateFilter
UpdateFilter ==
    /\ dialog = "open"
    /\ \E w \in ConfigWidgets :
          lists' = [lists EXCEPT ![dlgStack] =
                       updateFilter(lists[dlgStack], currentRow, w).stack]
    /\ lastOp' = "updateFilter"
    /\ UNCHANGED <<scipyOnePoint, stackVars, args, ret, mainStack, dlgStack,
                   currentRow, dialog, datafilt, before>>

\* filter_config_class.py 143-152: makeLPF is called with the keyword Radius
NewFilter ==
    /\ dialog = "open"
    /\ IF {"Window", "Dim", "Radius", "Outer", "Cont"} \subseteq makeLPFKeywords
       THEN /\ lists' = [lists EXCEPT ![dlgStack] =
                            Append(@, NewObject(makeLPF(WinStr("hanning"),
                                   ConfigDim, ConfigDim[2], FALSE, FALSE)))]
            /\ currentRow' = Len(lists[dlgStack]) - 1
       ELSE UNCHANGED <<lists, currentRow>>        \* TypeError
    /\ lastOp' = "newFilter"
    /\ UNCHANGED <<scipyOnePoint, stackVars, args, ret, mainStack, dlgStack,
                   dialog, datafilt, before>>

\* "currentRow() is True": currentRow() is an int, never the object True
RowIsTrue == FALSE

\* filter_config_class.py 154-159
RemoveFilter ==
    /\ dialog = "open"
    /\ IF ~RowIsTrue THEN UNCHANGED <<lists, currentRow>>
       ELSE /\ lists' = [lists EXCEPT ![dlgStack] =
                            [i \in 1..(Len(@) - 1) |->
                                IF i < PyAt(Len(@), currentRow) THEN @[i]
                                ELSE @[i + 1]]]
            /\ currentRow' = -1
    /\ lastOp' = "removeFilter"
    /\ UNCHANGED <<scipyOnePoint, stackVars, args, ret, mainStack, dlgStack,
                   dialog, datafilt, before>>

\* an item of filterList is clicked: the row becomes current and
\* _changeFilter loads its filter
ChangeFilter ==
    /\ dialog = "open"
    /\ \E row \in 0..(Len(lists[dlgStack]) - 1) : \E w \in ConfigWidgets :
          /\ currentRow' = row
          /\ lists' = [lists EXCEPT ![dlgStack] =
                          loadFilter(lists[dlgStack], row, w).stack]
    /\ lastOp' = "changeFilter"
    /\ UNCHANGED <<scipyOnePoint, stackVars, args, ret, mainStack, dlgStack,
                   dialog, datafilt, before>>

\* mr_magic.py 159-161: exec_ returns true
Accept ==
    /\ dialog = "open"
    /\ dialog' = "accepted"
    /\ mainStack' = dlgStack
    /\ datafilt' = updateAll(lists[dlgStack])
    /\ lastOp' = "accept"
    /\ UNCHANGED <<scipyOnePoint, stackVars, args, ret, lists, dlgStack,
                   currentRow, before>>

\* exec_ returns false
Reject ==
    /\ dialog = "open"
    /\ dialog' = "rejected"
    /\ lastOp' = "reject"
    /\ UNCHANGED <<scipyOnePoint, stackVars, args, ret, lists, mainStack,
                   dlgStack, currentRow, datafilt, before>>

ConfigNext ==
    \/ filtConfigure
    \/ UpdateFilter
    \/ NewFilter
    \/ RemoveFilter
    \/ ChangeFilter
    \/ Accept
    \/ Reject

SpecConfig == ConfigInit /\ [][ConfigNext]_vars

(***************************************************************************)
(* Claims about the dialog, checked under SpecConfig.                      *)
(***************************************************************************)
\* a row of the dialog's list is the current one
RowSelected == currentRow \in 0..(Len(lists[dlgStack]) - 1)

\* C25 (as the specification states it): _removeFilter with a row selected
\* in a non-empty stack leaves the stack one element shorter, the filter of
\* the selected row gone and the other filters in their order.
C25_Original ==
    [][(dialog = "open" /\ lastOp' = "removeFilter" /\ RowSelected)
          => lists'[dlgStack] =
                [i \in 1..(Len(lists[dlgStack]) - 1) |->
                    IF i <= currentRow THEN lists[dlgStack][i]
                    ELSE lists[dlgStack][i + 1]]]_vars

\* C26 (as the specification states it): _newFilter leaves the stack one
\* element longer, with a Low Pass filter of the hanning window for the
\* dialog's Dim last and the filters held before unchanged in front of it.
C26_Original ==
    [][(dialog = "open" /\ lastOp' = "newFilter")
          => /\ Len(lists'[dlgStack]) = Len(lists[dlgStack]) + 1
             /\ SubSeq(lists'[dlgStack], 1, Len(lists[dlgStack]))
                    = lists[dlgStack]
             /\ LET last == lists'[dlgStack][Len(lists'[dlgStack])].params
                IN  /\ last.Type = "Low Pass"
                    /\ last.Name = "hanning"
                    /\ last.Dim = ConfigDim]_vars

\* C30 (as the specification states it): when the dialog was dismissed
\* without accepting, the main window's filterStack holds the objects it
\* held when _filtConfigure was called, in the same order.
C30_Original == dialog = "rejected" => lists[mainStack] = before

====
